---------------------------- MODULE Spec2Model ----------------------------
(***************************************************************************)
(* Stripe payout export: the reconciliation of one payout                  *)
(* (StripeClient.get_payout_details, src/src/stripe_client.py), the        *)
(* aggregation of its ledger entries (process_payout_data,                 *)
(* src/src/main.py) and the export of one payout or of the payouts of a    *)
(* date range (export_payout and main, src/src/main.py).                   *)
(*                                                                         *)
(* Identifiers are pairs <<prefix, n>> ("ch_" and 1 for ch_1); None is the *)
(* empty tuple, which is falsy as in Python.  Decimal values are held as   *)
(* integers counting 1/DecimalScale units, which is exact for the sums and *)
(* absolute values the code computes.                                      *)
(***************************************************************************)
EXTENDS Integers, Sequences, FiniteSets, TLC

VARIABLES
    pc,                    \* position of the running function
    balance_transactions,  \* ledger entries the loop has iterated so far
    transactions,          \* process_payout_data: TransactionRecord rows
    total_paiements,
    total_remboursements,
    total_frais,
    total_litiges,
    total_echecs_paiement,
    total_autres,
    charges,               \* get_payout_details: resolved entities
    refunds,
    invoices,
    disputes,
    transfers,
    credit_notes,
    fees_breakdown,
    seen_invoices,
    seen_charges,
    seen_credit_notes,
    upstream,              \* answers the payment processor has given so far
    calls,                 \* upstream lookups made for the current ledger entry
    outages,               \* error classes the payment processor may raise
    fault,                 \* the error it raised: <<call, class, entry number>>
    payouts,               \* main: the payouts the date range lists
    attempted,             \* payouts export_payout was called for
    reported,              \* error lines echoed
    exported_files,        \* zip paths of the exports that returned
    invoked,               \* exporters run: <<payout id, exporter>>
    payout_folders,        \* main: folder names for the complete archive
    complete_zip,          \* main: the complete archive, once created
    fee_records,           \* process_payout_data: FeeRecord rows
    payout_details,        \* what the earlier calls of get_payout_details returned
    downloads,             \* InvoiceDownloader: the records with a PDF URL
    futures,               \* the state of the future submitted for each record
    results,               \* the dict download_all builds
    printed,               \* the lines download_all printed
    args,                  \* utils: the arguments of the call being made
    ret                    \* utils: what the call returned

totals == <<total_paiements, total_remboursements, total_frais,
            total_litiges, total_echecs_paiement, total_autres>>

entities == <<charges, refunds, invoices, disputes, transfers, credit_notes,
              fees_breakdown, seen_invoices, seen_charges, seen_credit_notes,
              upstream, calls>>

failure == <<outages, fault>>

batch == <<payouts, attempted, reported, exported_files, invoked,
           payout_folders, complete_zip>>

download == <<downloads, futures, results, printed>>

utilities == <<args, ret>>

\* what the loops of the aggregator, the resolver and main leave alone
elsewhere == <<fee_records, payout_details, download, utilities>>

vars == <<pc, balance_transactions, transactions, totals, entities, failure, batch,
          elsewhere>>

-----------------------------------------------------------------------------
(* Bounds *)

MaxLedger == 4      \* ledger entries aggregated by process_payout_data
MaxPayouts == 3     \* payouts listed for a date range

MaxFaultyEntries == 2   \* the same, when the payment processor may raise errors

MaxEntries == 3     \* ledger entries resolved by get_payout_details

MaxDownloads == 3   \* records handed to download_all
MaxWorkers == 2     \* max_workers of the pool, below the number of records

MaxRuns == 3            \* payouts reconciled one after the other
MaxSharedEntries == 1   \* ledger entries of each of them

-----------------------------------------------------------------------------
(* Python values *)

None == <<>>

Abs(x) == IF x < 0 THEN -x ELSE x

startswith(s, prefix) == Len(s) > 0 /\ s[1] = prefix

DecimalScale == 100

\* Decimal(amount_cents) / 100, as a count of 1/DecimalScale units
cents_to_decimal(amount_cents) == (amount_cents * DecimalScale) \div 100

-----------------------------------------------------------------------------
(* process_payout_data: the aggregation loop *)

PayoutTypes == {"payout", "payout_failure"}

\* the (type, amount, fee) shapes a ledger entry is drawn from
LedgerShapes ==
    { <<"payment", 10000, 290>>, <<"charge", -200, 0>>,
      <<"refund", -3000, 0>>, <<"refund", 1000, -30>>, <<"refund", 0, 0>>,
      <<"payment_failure", -5000, 0>>, <<"payment_failure_refund", 5000, 15>>,
      <<"stripe_fee", -50, 0>>, <<"application_fee", 25, 5>>,
      <<"dispute", -2000, 1500>>, <<"dispute_won", 2000, -1500>>,
      <<"dispute_lost", -700, 0>>,
      <<"payout", -6660, 0>>, <<"payout_failure", 6660, 0>>,
      <<"adjustment", -100, 0>>, <<"transfer", 70, 10>> }

\* the n-th balance transaction of the payout's ledger
LedgerEntry(n, type, amount, fee, source, fee_details) ==
    [id |-> <<"txn_", n>>, type |-> type, amount |-> amount,
     fee |-> fee, source |-> source, fee_details |-> fee_details]

IsSkipped_PayoutOnly(bt) == bt.type = "payout"

\* `if bt.type in ('payout', 'payout_failure'): continue`
IsSkipped(bt) == bt.type \in PayoutTypes

TransactionRecord(bt) ==
    [reference |-> bt.id,
     montant_brut |-> cents_to_decimal(bt.amount),
     frais |-> cents_to_decimal(bt.fee),
     source_id |-> bt.source]

\* variants of the if/elif chain, each with one branch miswritten
Aggregate_RefundSigned(t, bt) ==
    LET amount == cents_to_decimal(bt.amount)
        fee    == cents_to_decimal(bt.fee)
    IN  IF bt.type \in {"charge", "payment"}
        THEN [t EXCEPT !.paiements = @ + amount, !.frais = @ + Abs(fee)]
        ELSE IF bt.type \in {"payment_failure", "payment_failure_refund"}
        THEN [t EXCEPT !.echecs_paiement = @ + Abs(amount), !.frais = @ + Abs(fee)]
        ELSE IF bt.type = "refund"
        THEN [t EXCEPT !.remboursements = @ + amount, !.frais = @ + Abs(fee)]
        ELSE IF bt.type \in {"stripe_fee", "application_fee"}
        THEN [t EXCEPT !.frais = @ + Abs(amount)]
        ELSE IF bt.type \in {"dispute", "dispute_won", "dispute_lost"}
        THEN [t EXCEPT !.litiges = @ + Abs(amount), !.frais = @ + Abs(fee)]
        ELSE [t EXCEPT !.autres = @ + amount, !.frais = @ + Abs(fee)]

Aggregate_FeeFromFeeField(t, bt) ==
    LET amount == cents_to_decimal(bt.amount)
        fee    == cents_to_decimal(bt.fee)
    IN  IF bt.type \in {"charge", "payment"}
        THEN [t EXCEPT !.paiements = @ + amount, !.frais = @ + Abs(fee)]
        ELSE IF bt.type \in {"payment_failure", "payment_failure_refund"}
        THEN [t EXCEPT !.echecs_paiement = @ + Abs(amount), !.frais = @ + Abs(fee)]
        ELSE IF bt.type = "refund"
        THEN [t EXCEPT !.remboursements = @ + Abs(amount), !.frais = @ + Abs(fee)]
        ELSE IF bt.type \in {"stripe_fee", "application_fee"}
        THEN [t EXCEPT !.frais = @ + Abs(fee)]
        ELSE IF bt.type \in {"dispute", "dispute_won", "dispute_lost"}
        THEN [t EXCEPT !.litiges = @ + Abs(amount), !.frais = @ + Abs(fee)]
        ELSE [t EXCEPT !.autres = @ + amount, !.frais = @ + Abs(fee)]

Aggregate_DisputeAsOther(t, bt) ==
    LET amount == cents_to_decimal(bt.amount)
        fee    == cents_to_decimal(bt.fee)
    IN  IF bt.type \in {"charge", "payment"}
        THEN [t EXCEPT !.paiements = @ + amount, !.frais = @ + Abs(fee)]
        ELSE IF bt.type \in {"payment_failure", "payment_failure_refund"}
        THEN [t EXCEPT !.echecs_paiement = @ + Abs(amount), !.frais = @ + Abs(fee)]
        ELSE IF bt.type = "refund"
        THEN [t EXCEPT !.remboursements = @ + Abs(amount), !.frais = @ + Abs(fee)]
        ELSE IF bt.type \in {"stripe_fee", "application_fee"}
        THEN [t EXCEPT !.frais = @ + Abs(amount)]
        ELSE IF bt.type \in {"dispute", "dispute_won"}
        THEN [t EXCEPT !.litiges = @ + Abs(amount), !.frais = @ + Abs(fee)]
        ELSE [t EXCEPT !.autres = @ + amount, !.frais = @ + Abs(fee)]

Aggregate_FailureSigned(t, bt) ==
    LET amount == cents_to_decimal(bt.amount)
        fee    == cents_to_decimal(bt.fee)
    IN  IF bt.type \in {"charge", "payment"}
        THEN [t EXCEPT !.paiements = @ + amount, !.frais = @ + Abs(fee)]
        ELSE IF bt.type \in {"payment_failure", "payment_failure_refund"}
        THEN [t EXCEPT !.echecs_paiement = @ + amount, !.frais = @ + Abs(fee)]
        ELSE IF bt.type = "refund"
        THEN [t EXCEPT !.remboursements = @ + Abs(amount), !.frais = @ + Abs(fee)]
        ELSE IF bt.type \in {"stripe_fee", "application_fee"}
        THEN [t EXCEPT !.frais = @ + Abs(amount)]
        ELSE IF bt.type \in {"dispute", "dispute_won", "dispute_lost"}
        THEN [t EXCEPT !.litiges = @ + Abs(amount), !.frais = @ + Abs(fee)]
        ELSE [t EXCEPT !.autres = @ + amount, !.frais = @ + Abs(fee)]

\* the if/elif chain of lines 112-140 applied to the six accumulators
Aggregate(t, bt) ==
    LET amount == cents_to_decimal(bt.amount)
        fee    == cents_to_decimal(bt.fee)
    IN  IF bt.type \in {"charge", "payment"}
        THEN [t EXCEPT !.paiements = @ + amount, !.frais = @ + Abs(fee)]
        ELSE IF bt.type \in {"payment_failure", "payment_failure_refund"}
        THEN [t EXCEPT !.echecs_paiement = @ + Abs(amount),
                       !.frais = IF bt.fee # 0 THEN @ + Abs(fee) ELSE @]
        ELSE IF bt.type = "refund"
        THEN [t EXCEPT !.remboursements = @ + Abs(amount),
                       !.frais = IF bt.fee # 0 THEN @ + Abs(fee) ELSE @]
        ELSE IF bt.type \in {"stripe_fee", "application_fee"}
        THEN [t EXCEPT !.frais = @ + Abs(amount)]
        ELSE IF bt.type \in {"dispute", "dispute_won", "dispute_lost"}
        THEN [t EXCEPT !.litiges = @ + Abs(amount),
                       !.frais = IF bt.fee # 0 THEN @ + Abs(fee) ELSE @]
        ELSE [t EXCEPT !.autres = @ + amount,
                       !.frais = IF bt.fee # 0 THEN @ + Abs(fee) ELSE @]

Totals ==
    [paiements |-> total_paiements, remboursements |-> total_remboursements,
     frais |-> total_frais, litiges |-> total_litiges,
     echecs_paiement |-> total_echecs_paiement, autres |-> total_autres]

SetTotals(t) ==
    /\ total_paiements' = t.paiements
    /\ total_remboursements' = t.remboursements
    /\ total_frais' = t.frais
    /\ total_litiges' = t.litiges
    /\ total_echecs_paiement' = t.echecs_paiement
    /\ total_autres' = t.autres

\* the accumulators as process_payout_data initialises them
ZeroTotals ==
    [paiements |-> 0, remboursements |-> 0, frais |-> 0, litiges |-> 0,
     echecs_paiement |-> 0, autres |-> 0]

\* the whole loop over a ledger: the rows it appends
RowsOf(ledger) ==
    [k \in DOMAIN SelectSeq(ledger, LAMBDA b : ~IsSkipped(b)) |->
        TransactionRecord(SelectSeq(ledger, LAMBDA b : ~IsSkipped(b))[k])]

\* the whole loop over a ledger: the accumulators it leaves
RECURSIVE AggregateAll(_, _)
AggregateAll(t, ledger) ==
    IF ledger = <<>> THEN t
    ELSE AggregateAll(IF IsSkipped(Head(ledger)) THEN t ELSE Aggregate(t, Head(ledger)),
                      Tail(ledger))

\* the loop with the rows kept in a collection without order: a row comes
\* out at any position
ProcessTransaction_Unordered ==
    /\ pc = "aggregate"
    /\ Len(balance_transactions) < MaxLedger
    /\ \E shape \in LedgerShapes :
         LET bt == LedgerEntry(Len(balance_transactions) + 1,
                                shape[1], shape[2], shape[3], None, <<>>)
         IN  /\ balance_transactions' = Append(balance_transactions, bt)
             /\ IF IsSkipped(bt)
                THEN UNCHANGED <<transactions, totals>>
                ELSE /\ \E k \in 0..Len(transactions) :
                          transactions' = SubSeq(transactions, 1, k)
                                            \o <<TransactionRecord(bt)>>
                                            \o SubSeq(transactions, k + 1, Len(transactions))
                     /\ SetTotals(Aggregate(Totals, bt))
    /\ UNCHANGED <<pc, entities, failure, batch, elsewhere>>

\* the loop with each row put in front of the rows built so far
ProcessTransaction_Prepend ==
    /\ pc = "aggregate"
    /\ Len(balance_transactions) < MaxLedger
    /\ \E shape \in LedgerShapes :
         LET bt == LedgerEntry(Len(balance_transactions) + 1,
                                shape[1], shape[2], shape[3], None, <<>>)
         IN  /\ balance_transactions' = Append(balance_transactions, bt)
             /\ IF IsSkipped(bt)
                THEN UNCHANGED <<transactions, totals>>
                ELSE /\ transactions' = <<TransactionRecord(bt)>> \o transactions
                     /\ SetTotals(Aggregate(Totals, bt))
    /\ UNCHANGED <<pc, entities, failure, batch, elsewhere>>

\* one iteration of `for bt in balance_transactions`
ProcessTransaction ==
    /\ pc = "aggregate"
    /\ Len(balance_transactions) < MaxLedger
    /\ \E shape \in LedgerShapes :
         LET bt == LedgerEntry(Len(balance_transactions) + 1,
                                shape[1], shape[2], shape[3], None, <<>>)
         IN  /\ balance_transactions' = Append(balance_transactions, bt)
             /\ IF IsSkipped(bt)
                THEN UNCHANGED <<transactions, totals>>
                ELSE /\ transactions' = Append(transactions, TransactionRecord(bt))
                     /\ SetTotals(Aggregate(Totals, bt))
    /\ UNCHANGED <<pc, entities, failure, batch, elsewhere>>

\* the ledger is exhausted: the loop ends with the accumulators final
EndAggregation ==
    /\ pc = "aggregate"
    /\ pc' = "aggregated"
    /\ UNCHANGED <<balance_transactions, transactions, totals, entities, failure, batch, elsewhere>>

\* the entry counts handed to PayoutSummary: rows built by the loop, and the
\* refund and dispute objects the resolver fetched
nb_transactions == Len(transactions)

nb_remboursements == Len(refunds)

nb_litiges == Len(disputes)

\* the fields the dataclass PayoutSummary declares
PayoutSummaryFields ==
    {"payout_id", "date", "date_arrivee", "montant", "devise", "statut",
     "methode", "banque",
     "total_paiements", "total_remboursements", "total_frais", "total_litiges",
     "total_autres",
     "nb_transactions", "nb_factures", "nb_remboursements", "nb_litiges"}

\* the keyword arguments of the call `summary = PayoutSummary(...)` that carry
\* the accumulators and the counts
SummaryKeywords ==
    [total_paiements |-> total_paiements,
     total_remboursements |-> total_remboursements,
     total_frais |-> total_frais,
     total_litiges |-> total_litiges,
     total_echecs_paiement |-> total_echecs_paiement,
     total_autres |-> total_autres,
     nb_transactions |-> nb_transactions,
     nb_remboursements |-> nb_remboursements,
     nb_litiges |-> nb_litiges]

\* a dataclass constructor raises TypeError for a keyword that is not a field
PayoutSummary(keywords) ==
    IF DOMAIN keywords \subseteq PayoutSummaryFields THEN "summarized" ELSE "TypeError"

\* PayoutSummary(...) is called with total_echecs_paiement, which the
\* dataclass does not declare: the constructor raises TypeError
CreateSummary ==
    /\ pc = "aggregated"
    /\ pc' = PayoutSummary(SummaryKeywords)
    /\ UNCHANGED <<balance_transactions, transactions, totals, entities, failure, batch, elsewhere>>

InitAggregate ==
    /\ pc = "aggregate"
    /\ balance_transactions = <<>>
    /\ transactions = <<>>
    /\ total_paiements = 0
    /\ total_remboursements = 0
    /\ total_frais = 0
    /\ total_litiges = 0
    /\ total_echecs_paiement = 0
    /\ total_autres = 0
    /\ charges = <<>>
    /\ refunds = <<>>
    /\ invoices = <<>>
    /\ disputes = <<>>
    /\ transfers = <<>>
    /\ credit_notes = <<>>
    /\ fees_breakdown = <<>>
    /\ seen_invoices = {}
    /\ seen_charges = {}
    /\ seen_credit_notes = {}
    /\ upstream = <<>>
    /\ calls = <<>>
    /\ outages = {}
    /\ fault = None
    /\ payouts = <<>>
    /\ attempted = <<>>
    /\ reported = <<>>
    /\ exported_files = <<>>
    /\ invoked = <<>>
    /\ payout_folders = <<>>
    /\ complete_zip = None
    /\ fee_records = <<>>
    /\ payout_details = <<>>
    /\ downloads = <<>>
    /\ futures = <<>>
    /\ results = <<>>
    /\ printed = <<>>
    /\ args = None
    /\ ret = None

NextAggregate == ProcessTransaction \/ EndAggregation \/ CreateSummary

SpecAggregate == InitAggregate /\ [][NextAggregate]_vars

-----------------------------------------------------------------------------
(* The payment processor.  A charge pays at most one invoice; which of the  *)
(* four links to it exist (on the charge, on its payment-intent, in the     *)
(* invoice search index, on the invoice) is free.  An answer is fixed the   *)
(* first time the program asks for it and kept in `upstream`, so that       *)
(* repeated lookups agree; what was never asked stays open.                 *)

ch_1 == <<"ch_", 1>>
py_1 == <<"py_", 1>>
zz_1 == <<"zz_", 1>>
pi_1 == <<"pi_", 1>>
pi_2 == <<"pi_", 2>>
pi_3 == <<"pi_", 3>>
in_1 == <<"in_", 1>>
in_2 == <<"in_", 2>>
re_1 == <<"re_", 1>>
re_2 == <<"re_", 2>>
dp_1 == <<"dp_", 1>>
tr_1 == <<"tr_", 1>>
po_1 == <<"po_", 1>>
cus_1 == <<"cus_", 1>>
cn_1 == <<"cn_", 1>>
cn_2 == <<"cn_", 2>>
cn_3 == <<"cn_", 3>>

InvoiceIds == {in_1, in_2}

\* the payment-intent a charge was made through, when it has one
PaymentIntentOf(c) == IF c = ch_1 THEN pi_1 ELSE IF c = py_1 THEN pi_2 ELSE pi_3

ChargeOf(p) == IF p = pi_1 THEN ch_1 ELSE py_1

\* the invoices a charge may pay
InvoicesFor(c) == IF c = ch_1 THEN {in_1} ELSE IF c = py_1 THEN {in_1, in_2} ELSE {}

\* the charges a refund may be a refund of
ChargesFor(r) == IF r = re_1 THEN {ch_1} ELSE {ch_1, py_1}

\* invoices that may have become irretrievable
FragileInvoices == {in_2}

\* credit notes issued against each invoice
CreditNotesOf(i) == IF i = in_1 THEN <<cn_1, cn_2>> ELSE <<cn_3>>

NoCharge ==
    [found |-> FALSE, customer |-> None, has_pi |-> FALSE,
     invoice |-> None, pi_invoice |-> None]

\* a charge as upstream holds it: its customer, whether it was made through
\* a payment-intent, and the invoice named on it and on the payment-intent
ChargeFacts(c) ==
    {NoCharge} \cup
    { f \in [found : {TRUE}, customer : {IF c = zz_1 THEN None ELSE cus_1},
             has_pi : IF c = zz_1 THEN {FALSE} ELSE BOOLEAN,
             invoice : {None} \cup InvoicesFor(c),
             pi_invoice : {None} \cup InvoicesFor(c)] :
        ~f.has_pi => f.pi_invoice = None }

RefundFacts(r) ==
    {[found |-> FALSE, charge |-> None], [found |-> TRUE, charge |-> None]}
    \cup [found : {TRUE}, charge : ChargesFor(r)]

PaymentIntentShapes == [charges : BOOLEAN, latest_charge : {"none", "object", "string"}]

\* every invoice that some link of charge c names
LinkedInvoices(U, c) ==
    ({U.charge[c].invoice, U.charge[c].pi_invoice}
       \cup (IF PaymentIntentOf(c) \in DOMAIN U.search
             THEN {U.search[PaymentIntentOf(c)]} ELSE {})
       \cup (IF c \in DOMAIN U.back THEN {U.back[c]} ELSE {}))
    \ {None}

\* the links of a charge agree on the invoice; an invoice records one charge;
\* an invoice the search index or the customer's list shows can be retrieved
Coherent(U) ==
    /\ \A c \in DOMAIN U.charge : Cardinality(LinkedInvoices(U, c)) <= 1
    /\ \A c, d \in DOMAIN U.back : (c # d /\ U.back[c] # None) => U.back[c] # U.back[d]
    /\ \A c \in DOMAIN U.back :
         (U.back[c] # None /\ U.back[c] \in DOMAIN U.invoice) => U.invoice[U.back[c]]
    /\ \A q \in DOMAIN U.search :
         (U.search[q] # None /\ U.search[q] \in DOMAIN U.invoice) => U.invoice[U.search[q]]

OneOf(memo, key, candidates) == IF key \in DOMAIN memo THEN {memo[key]} ELSE candidates

\* upstream with everything about charge c decided: the charge, what the
\* invoice search by its payment-intent and the scan of its customer's
\* invoices find, and which of its invoices can still be retrieved
AskCharge(U, c) ==
    LET q == PaymentIntentOf(c)
    IN  { V \in { [U EXCEPT !.charge = (c :> f) @@ @,
                            !.search = (q :> s) @@ @,
                            !.back = (c :> b) @@ @,
                            !.invoice = [i \in InvoiceIds |->
                                           IF i \in DOMAIN @ THEN @[i]
                                           ELSE IF i \in missing THEN FALSE
                                           ELSE TRUE]] :
                    f \in OneOf(U.charge, c, ChargeFacts(c)),
                    s \in OneOf(U.search, q, {None} \cup InvoicesFor(c)),
                    b \in OneOf(U.back, c, {None} \cup InvoicesFor(c)),
                    missing \in SUBSET (FragileInvoices \cap InvoicesFor(c)) } :
            /\ Coherent(V)
            /\ ~V.charge[c].has_pi => V.search[q] = None
            /\ V.charge[c].customer = None => V.back[c] = None }

Asked(log, op, key) == \E k \in DOMAIN log : log[k][1] = op /\ log[k][2] = key

\* upstream keeps what the lookups in `log` read of V; the rest stays open
Remember(U, V, c, log) ==
    LET q == PaymentIntentOf(c)
    IN  [V EXCEPT
           !.search = IF q \in DOMAIN U.search \/ Asked(log, "Invoice.search", q)
                      THEN @ ELSE U.search,
           !.back = IF c \in DOMAIN U.back \/ Asked(log, "Invoice.list", V.charge[c].customer)
                    THEN @ ELSE U.back,
           !.invoice = [i \in {j \in InvoiceIds :
                                 j \in DOMAIN U.invoice \/ Asked(log, "Invoice.retrieve", j)}
                          |-> @[i]]]

AskRefund(U, r) ==
    { [U EXCEPT !.refund = (r :> f) @@ @] : f \in OneOf(U.refund, r, RefundFacts(r)) }

AskPaymentIntent(U, q) ==
    { [U EXCEPT !.payment_intent = (q :> sh) @@ @] :
        sh \in OneOf(U.payment_intent, q, PaymentIntentShapes) }

AskFound(U, kind, key) ==
    { [U EXCEPT ![kind] = (key :> ok) @@ @] : ok \in OneOf(U[kind], key, BOOLEAN) }

NoAnswers ==
    [charge |-> <<>>, search |-> <<>>, back |-> <<>>, invoice |-> <<>>,
     refund |-> <<>>, payment_intent |-> <<>>, dispute |-> <<>>, transfer |-> <<>>]

InvoiceObject(i) == [id |-> i, number |-> <<"F-", i[2]>>]

\* what Charge.retrieve / a payment-intent's embedded charge looks like;
\* `expanded` says whether payment_intent is an object or a bare id
ChargeObject(U, c, expanded) ==
    LET f == U.charge[c]
    IN  [id |-> c,
         invoice |-> f.invoice,
         payment_intent |->
             IF f.has_pi
             THEN [id |-> PaymentIntentOf(c), expanded |-> expanded,
                   invoice |-> IF expanded THEN f.pi_invoice ELSE None]
             ELSE None,
         customer |-> f.customer]

Call(op, key, site) == <<op, key, site>>

\* the stripe.error classes an upstream call raises; none is a subclass of
\* another
ErrorClasses ==
    {"InvalidRequestError", "APIError", "APIConnectionError", "AuthenticationError"}

\* the except clauses with the fetches of the resolver unguarded
Catchers_FetchUnguarded(call) ==
    IF call[1] \in {"Invoice.search", "Invoice.list"} \/ call[3][1] = 4
    THEN {"InvalidRequestError", "APIError"}
    ELSE {}

\* the except clauses with the two searches catching every error
Catchers_SearchCatchesAll(call) ==
    IF call[1] \in {"Invoice.search", "Invoice.list"} \/ call[3][1] = 4
    THEN ErrorClasses
    ELSE {"InvalidRequestError"}

\* the error classes the except clauses around a lookup catch: the search
\* by payment-intent and the scan of the customer's invoices (with the
\* retrieve inside it) catch InvalidRequestError and APIError, every other
\* lookup only InvalidRequestError
Catchers(call) ==
    IF call[1] \in {"Invoice.search", "Invoice.list"} \/ call[3][1] = 4
    THEN {"InvalidRequestError", "APIError"}
    ELSE {"InvalidRequestError"}

-----------------------------------------------------------------------------
(* StripeClient: the fetch operations.  Each returns None where the code    *)
(* catches InvalidRequestError.                                             *)

get_charge(U, charge_id) ==
    IF U.charge[charge_id].found THEN ChargeObject(U, charge_id, TRUE) ELSE None

get_refund(U, refund_id) ==
    IF U.refund[refund_id].found
    THEN [id |-> refund_id, charge |-> U.refund[refund_id].charge]
    ELSE None

get_invoice(U, invoice_id) ==
    IF U.invoice[invoice_id] THEN InvoiceObject(invoice_id) ELSE None

get_dispute(U, dispute_id) ==
    IF U.dispute[dispute_id] THEN [id |-> dispute_id] ELSE None

get_transfer(U, transfer_id) ==
    IF U.transfer[transfer_id] THEN [id |-> transfer_id] ELSE None

get_credit_notes_for_invoice(U, invoice_id) ==
    [k \in DOMAIN CreditNotesOf(invoice_id) |->
        [id |-> CreditNotesOf(invoice_id)[k], invoice |-> invoice_id]]

\* stripe.PaymentIntent.retrieve: the payment-intent of a charge that has one
PaymentIntent_retrieve(U, p) ==
    LET c == ChargeOf(p)
        f == U.charge[c]
    IN  IF f.found /\ f.has_pi
        THEN [id |-> p, invoice |-> f.pi_invoice]
        ELSE None

get_payment_intent(U, p) ==
    LET c == ChargeOf(p)
        pi == PaymentIntent_retrieve(U, p)
        sh == U.payment_intent[p]
    IN  IF pi = None THEN None
        ELSE [id |-> p, invoice |-> pi.invoice,
              charges |-> IF sh.charges THEN <<ChargeObject(U, c, FALSE)>> ELSE <<>>,
              latest_charge |->
                  IF sh.latest_charge = "object"
                  THEN [expanded |-> TRUE, id |-> c, object |-> ChargeObject(U, c, FALSE)]
                  ELSE IF sh.latest_charge = "string"
                  THEN [expanded |-> FALSE, id |-> c, object |-> None]
                  ELSE None]

_get_invoice_id_from_object(obj) ==
    IF obj = None THEN None
    ELSE IF startswith(obj, "in_") THEN obj
    ELSE None

\* stripe.Invoice.search(query="payment_intent:'...'", limit=1)
_find_invoice_for_payment_intent(U, payment_intent_id) ==
    LET hit == U.search[payment_intent_id]
    IN  IF hit # None THEN InvoiceObject(hit) ELSE None

\* stripe.Invoice.list(customer=...): the customer's invoices with the
\* charge each one records
Invoice_list(U, customer_id) ==
    [k \in 1..Cardinality(InvoiceIds) |->
        LET i == <<"in_", k>>
        IN  [id |-> i,
             charge |-> IF \E c \in DOMAIN U.back : U.back[c] = i
                        THEN CHOOSE c \in DOMAIN U.back : U.back[c] = i
                        ELSE None]]

RECURSIVE FirstMatch(_, _, _)
FirstMatch(listed, charge_id, k) ==
    IF k > Len(listed) THEN None
    ELSE IF listed[k].charge # None /\ listed[k].charge = charge_id THEN listed[k].id
    ELSE FirstMatch(listed, charge_id, k + 1)

_find_invoice_for_charge_OtherCustomer(U, charge) ==
    IF charge.customer = None THEN [invoice |-> None, calls |-> <<>>]
    ELSE [invoice |-> None,
          calls |-> <<Call("Invoice.list", charge.customer, <<4, charge.id>>)>>]

\* returns the invoice found by the scan and the lookups made
_find_invoice_for_charge(U, charge) ==
    IF charge.customer = None THEN [invoice |-> None, calls |-> <<>>]
    ELSE LET hit == FirstMatch(Invoice_list(U, charge.customer), charge.id, 1)
         IN  IF hit = None
             THEN [invoice |-> None,
                   calls |-> <<Call("Invoice.list", charge.customer, <<4, charge.id>>)>>]
             ELSE [invoice |-> get_invoice(U, hit),
                   calls |-> <<Call("Invoice.list", charge.customer, <<4, charge.id>>),
                               Call("Invoice.retrieve", hit, <<4, charge.id>>)>>]

\* whether the answer upstream gives to a lookup is the absence an except
\* clause turns an error into: None, nothing found, no match in the list;
\* the credit-note listing turns it into [] whatever the invoice has
Absent(U, call) ==
    IF call[1] = "Charge.retrieve" THEN ~U.charge[call[2]].found
    ELSE IF call[1] = "Refund.retrieve" THEN ~U.refund[call[2]].found
    ELSE IF call[1] = "Invoice.retrieve" THEN ~U.invoice[call[2]]
    ELSE IF call[1] = "Dispute.retrieve" THEN ~U.dispute[call[2]]
    ELSE IF call[1] = "Transfer.retrieve" THEN ~U.transfer[call[2]]
    ELSE IF call[1] = "PaymentIntent.retrieve" THEN PaymentIntent_retrieve(U, call[2]) = None
    ELSE IF call[1] = "Invoice.search" THEN U.search[call[2]] = None
    ELSE IF call[1] = "Invoice.list" THEN U.back[call[3][2]] = None
    ELSE call[1] = "CreditNote.list"

\* the locals of one run of discovery
Discovery(seen, invs) ==
    [invoice_id |-> None, seen_invoices |-> seen, invoices |-> invs,
     calls |-> <<>>, returned |-> FALSE]

\* Path 1: charge.invoice
Path1(charge, r) ==
    IF charge.invoice # None
    THEN [r EXCEPT !.invoice_id = _get_invoice_id_from_object(charge.invoice)]
    ELSE r

\* `if pi and pi.invoice:` on the payment-intent fetched by path 2
FetchedPaymentIntent(r, pi) ==
    IF pi # None /\ pi.invoice # None
    THEN [r EXCEPT !.invoice_id = _get_invoice_id_from_object(pi.invoice)]
    ELSE r

\* Path 2: payment_intent.invoice, on the expanded object or after a fetch
Path2(U, charge, r) ==
    IF r.invoice_id = None /\ charge.payment_intent # None
    THEN IF charge.payment_intent.expanded /\ charge.payment_intent.invoice # None
         THEN [r EXCEPT !.invoice_id =
                  _get_invoice_id_from_object(charge.payment_intent.invoice)]
         ELSE FetchedPaymentIntent(
                  [r EXCEPT !.calls = Append(@,
                      Call("PaymentIntent.retrieve", charge.payment_intent.id,
                           <<2, charge.id>>))],
                  PaymentIntent_retrieve(U, charge.payment_intent.id))
    ELSE r

\* an invoice object found by path 3 or 4 is added directly, and discovery
\* returns, unless the invoice was seen
KeepFound(r, found_invoice) ==
    IF found_invoice = None THEN r
    ELSE IF found_invoice.id \notin r.seen_invoices
    THEN [r EXCEPT !.invoice_id = found_invoice.id,
                   !.invoices = Append(@, found_invoice),
                   !.seen_invoices = @ \cup {found_invoice.id},
                   !.returned = TRUE]
    ELSE [r EXCEPT !.invoice_id = found_invoice.id]

\* Path 3: reverse search by payment-intent
Path3(U, charge, r) ==
    IF r.invoice_id = None /\ charge.payment_intent # None
    THEN KeepFound(
             [r EXCEPT !.calls = Append(@,
                 Call("Invoice.search", charge.payment_intent.id, <<3, charge.id>>))],
             _find_invoice_for_payment_intent(U, charge.payment_intent.id))
    ELSE r

KeepScanned(r, scan) ==
    KeepFound([r EXCEPT !.calls = @ \o scan.calls], scan.invoice)

\* `if not invoice_id:` before the scan of the customer's invoices
TryScan_Always(invoice_id) == TRUE

TryScan(invoice_id) == invoice_id = None

\* Path 4: scan of the customer's invoices
Path4(U, charge, r) ==
    IF ~r.returned /\ TryScan(r.invoice_id)
    THEN KeepScanned(r, _find_invoice_for_charge(U, charge))
    ELSE r

KeepFetched(r, invoice) ==
    IF invoice # None
    THEN [r EXCEPT !.invoices = Append(@, invoice),
                   !.seen_invoices = @ \cup {r.invoice_id},
                   !.returned = TRUE]
    ELSE r

\* the invoice paths 1 and 2 named is fetched unless seen
FetchNamed(U, r) ==
    IF ~r.returned /\ r.invoice_id # None /\ r.invoice_id \notin r.seen_invoices
    THEN KeepFetched(
             [r EXCEPT !.calls = Append(@,
                 Call("Invoice.retrieve", r.invoice_id, <<0, None>>))],
             get_invoice(U, r.invoice_id))
    ELSE r

\* `return invoice_id if invoice_id in seen_invoices else None`, which is
\* also what the earlier returns give
Returned(r) ==
    [ret |-> IF r.invoice_id \in r.seen_invoices THEN r.invoice_id ELSE None,
     seen_invoices |-> r.seen_invoices, invoices |-> r.invoices, calls |-> r.calls]

\* _extract_invoice_from_charge: the return value, the updated seen_invoices
\* and invoices, and the lookups made
_extract_invoice_from_charge(U, charge, seen, invs) ==
    Returned(FetchNamed(U,
        Path4(U, charge,
            Path3(U, charge,
                Path2(U, charge,
                    Path1(charge, Discovery(seen, invs)))))))

-----------------------------------------------------------------------------
(* get_payout_details: the loop over the ledger entries *)

StripeFee(amount) ==
    [type |-> "stripe_fee", amount |-> amount, currency |-> "eur",
     description |-> "Stripe processing fees"]

\* the (type, amount, fee, source, fee_details) shapes of a ledger entry
SourceShapes ==
    { <<"charge", 10000, 290, ch_1, <<StripeFee(290)>> >>,
      <<"payment", 5000, 35, py_1, <<StripeFee(35)>> >>,
      <<"payment", 10000, 290, pi_1, <<>> >>,
      <<"refund", -3000, 0, re_1, <<>> >>,
      <<"refund", -1000, 0, re_2, <<>> >>,
      <<"dispute", -2000, 1500, dp_1, <<>> >>,
      <<"transfer", -500, 0, tr_1, <<>> >>,
      <<"payment_failure", -5000, 0, zz_1, <<>> >>,
      <<"stripe_fee", -50, 0, None, <<>> >>,
      <<"payout", -6660, 0, po_1, <<>> >>,
      <<"payout", -1000, 15, po_1, <<StripeFee(15)>> >> }

\* the collections and seen-sets of get_payout_details, with the local
\* invoice_found and the lookups made for the current entry
Resolved ==
    [charges |-> charges, refunds |-> refunds, invoices |-> invoices,
     disputes |-> disputes, transfers |-> transfers, credit_notes |-> credit_notes,
     seen_invoices |-> seen_invoices, seen_charges |-> seen_charges,
     seen_credit_notes |-> seen_credit_notes, invoice_found |-> None,
     calls |-> <<>>]

SetResolved(S) ==
    /\ charges' = S.charges
    /\ refunds' = S.refunds
    /\ invoices' = S.invoices
    /\ disputes' = S.disputes
    /\ transfers' = S.transfers
    /\ credit_notes' = S.credit_notes
    /\ seen_invoices' = S.seen_invoices
    /\ seen_charges' = S.seen_charges
    /\ seen_credit_notes' = S.seen_credit_notes
    /\ calls' = S.calls

\* `for fee in bt.fee_details: fees_breakdown.append({...})`
FeeLines(bt) ==
    [k \in DOMAIN bt.fee_details |->
        [transaction_id |-> bt.id, type |-> bt.fee_details[k].type,
         amount |-> bt.fee_details[k].amount,
         currency |-> bt.fee_details[k].currency,
         description |-> bt.fee_details[k].description]]

Log(S, call) == [S EXCEPT !.calls = Append(@, call)]

\* `invoice_found = self._extract_invoice_from_charge(charge, seen_invoices, invoices)`
Discovered(S, x) ==
    [S EXCEPT !.seen_invoices = x.seen_invoices,
              !.invoices = x.invoices,
              !.calls = @ \o x.calls,
              !.invoice_found = x.ret]

Discover(U, S, charge) ==
    Discovered(S, _extract_invoice_from_charge(U, charge, S.seen_invoices, S.invoices))

\* `charges.append(charge); seen_charges.add(...)`
AppendCharge(S, charge, key) ==
    [S EXCEPT !.charges = Append(@, charge), !.seen_charges = @ \cup {key}]

\* the invoice the repeated search found is kept unless seen
AddFoundInvoice(S, found_invoice) ==
    IF found_invoice # None /\ found_invoice.id \notin S.seen_invoices
    THEN [S EXCEPT !.invoices = Append(@, found_invoice),
                   !.seen_invoices = @ \cup {found_invoice.id}]
    ELSE S

\* the invoice search the caller repeats when discovery returned nothing
SearchViaPaymentIntent(U, S, charge) ==
    IF S.invoice_found = None /\ charge.payment_intent # None
    THEN AddFoundInvoice(
             Log(S, Call("Invoice.search", charge.payment_intent.id, <<5, charge.id>>)),
             _find_invoice_for_payment_intent(U, charge.payment_intent.id))
    ELSE S

\* the charge is appended, then its invoice is looked for
AddChargeWithInvoice(U, S, charge, key) ==
    IF charge = None THEN S
    ELSE SearchViaPaymentIntent(U, Discover(U, AppendCharge(S, charge, key), charge), charge)

\* source.startswith("ch_")
ChargeSource(U, S, source) ==
    IF source \in S.seen_charges THEN S
    ELSE AddChargeWithInvoice(U, Log(S, Call("Charge.retrieve", source, <<0, None>>)),
                              get_charge(U, source), source)

\* the py_ branch: `if found_invoice and found_invoice.id not in seen_invoices`
KeepPaymentInvoice(S, found_invoice) ==
    IF found_invoice = None THEN S
    ELSE IF found_invoice.id \in S.seen_invoices THEN S
    ELSE [S EXCEPT !.invoices = Append(@, found_invoice),
                   !.seen_invoices = @ \cup {found_invoice.id}]

\* the py_ branch: `if not invoice_found and charge.payment_intent:`
PaymentSearch(U, S, charge) ==
    IF S.invoice_found # None \/ charge.payment_intent = None THEN S
    ELSE KeepPaymentInvoice(
             Log(S, Call("Invoice.search", charge.payment_intent.id, <<5, charge.id>>)),
             _find_invoice_for_payment_intent(U, charge.payment_intent.id))

\* the py_ branch: `if charge:` append, mark seen, discover
PaymentFetched(U, S, charge, source) ==
    IF charge = None THEN S
    ELSE PaymentSearch(U,
             Discover(U, [S EXCEPT !.charges = Append(@, charge),
                                   !.seen_charges = @ \cup {source}], charge),
             charge)

\* the py_ branch without its test of seen_charges
PaymentSource_Unguarded(U, S, source) ==
    PaymentFetched(U, Log(S, Call("Charge.retrieve", source, <<0, None>>)),
                   get_charge(U, source), source)

\* source.startswith("py_")
PaymentSource(U, S, source) ==
    IF source \notin S.seen_charges
    THEN PaymentFetched(U, Log(S, Call("Charge.retrieve", source, <<0, None>>)),
                        get_charge(U, source), source)
    ELSE S

RECURSIVE AddCreditNotes(_, _, _)
AddCreditNotes(S, inv_credit_notes, k) ==
    IF k > Len(inv_credit_notes) THEN S
    ELSE IF inv_credit_notes[k].id \notin S.seen_credit_notes
    THEN AddCreditNotes([S EXCEPT !.credit_notes = Append(@, inv_credit_notes[k]),
                                  !.seen_credit_notes = @ \cup {inv_credit_notes[k].id}],
                        inv_credit_notes, k + 1)
    ELSE AddCreditNotes(S, inv_credit_notes, k + 1)

\* `if invoice_id:` the credit notes of the invoice are listed
ListCreditNotes(U, S) ==
    IF S.invoice_found = None THEN S
    ELSE AddCreditNotes(Log(S, Call("CreditNote.list", S.invoice_found, <<0, None>>)),
                        get_credit_notes_for_invoice(U, S.invoice_found), 1)

\* the refund's charge, fetched: marked seen but not appended
RefundedCharge(U, S, charge, charge_id) ==
    IF charge = None THEN S
    ELSE ListCreditNotes(U,
             Discover(U, [S EXCEPT !.seen_charges = @ \cup {charge_id}], charge))

\* `if charge_id not in seen_charges:` guards all that follows the refund
RefundCharge(U, S, charge_id) ==
    IF charge_id = None \/ charge_id \in S.seen_charges THEN S
    ELSE RefundedCharge(U, Log(S, Call("Charge.retrieve", charge_id, <<0, None>>)),
                        get_charge(U, charge_id), charge_id)

AddRefund(U, S, refund) ==
    IF refund = None THEN S
    ELSE RefundCharge(U, [S EXCEPT !.refunds = Append(@, refund)], refund.charge)

\* source.startswith("re_")
RefundSource(U, S, source) ==
    AddRefund(U, Log(S, Call("Refund.retrieve", source, <<0, None>>)),
              get_refund(U, source))

AddDispute(S, dispute) ==
    IF dispute = None THEN S ELSE [S EXCEPT !.disputes = Append(@, dispute)]

\* source.startswith("dp_")
DisputeSource(U, S, source) ==
    AddDispute(Log(S, Call("Dispute.retrieve", source, <<0, None>>)),
               get_dispute(U, source))

AddTransfer(S, transfer) ==
    IF transfer = None THEN S ELSE [S EXCEPT !.transfers = Append(@, transfer)]

\* source.startswith("tr_")
TransferSource(U, S, source) ==
    AddTransfer(Log(S, Call("Transfer.retrieve", source, <<0, None>>)),
                get_transfer(U, source))

\* `if not invoice_found: self._extract_invoice_from_charge(...)`, the
\* return value dropped
DiscoverUnlessFound(U, S, charge) ==
    IF S.invoice_found # None THEN S
    ELSE [Discover(U, S, charge) EXCEPT !.invoice_found = None]

\* a charge found on the payment-intent: appended unless seen
AddEmbeddedCharge(U, S, charge) ==
    IF charge.id \in S.seen_charges THEN S
    ELSE DiscoverUnlessFound(U, AppendCharge(S, charge, charge.id), charge)

RECURSIVE AddEmbeddedCharges(_, _, _, _)
AddEmbeddedCharges(U, S, data, k) ==
    IF k > Len(data) THEN S
    ELSE AddEmbeddedCharges(U, AddEmbeddedCharge(U, S, data[k]), data, k + 1)

KeepInvoice(S, invoice) ==
    IF invoice # None
    THEN [S EXCEPT !.invoices = Append(@, invoice),
                   !.seen_invoices = @ \cup {invoice.id},
                   !.invoice_found = invoice.id]
    ELSE S

\* Path 1 of the pi_ branch: the payment-intent's own invoice reference
DirectInvoice(U, S, invoice_id) ==
    IF invoice_id # None /\ invoice_id \notin S.seen_invoices
    THEN KeepInvoice(Log(S, Call("Invoice.retrieve", invoice_id, <<0, None>>)),
                     get_invoice(U, invoice_id))
    ELSE S

\* the invoice the reverse search found is kept unless seen
AddSearchedInvoice_Unguarded(S, found_invoice) ==
    IF found_invoice # None
    THEN [S EXCEPT !.invoices = Append(@, found_invoice),
                   !.seen_invoices = @ \cup {found_invoice.id},
                   !.invoice_found = found_invoice.id]
    ELSE S

AddSearchedInvoice(S, found_invoice) ==
    IF found_invoice # None /\ found_invoice.id \notin S.seen_invoices
    THEN [S EXCEPT !.invoices = Append(@, found_invoice),
                   !.seen_invoices = @ \cup {found_invoice.id},
                   !.invoice_found = found_invoice.id]
    ELSE S

\* Path 2 of the pi_ branch: reverse search
ReverseSearch(U, S, source) ==
    IF S.invoice_found = None
    THEN AddSearchedInvoice(Log(S, Call("Invoice.search", source, <<0, None>>)),
                            _find_invoice_for_payment_intent(U, source))
    ELSE S

AddFetchedCharge(U, S, charge, charge_id) ==
    IF charge = None THEN S
    ELSE DiscoverUnlessFound(U, AppendCharge(S, charge, charge_id), charge)

\* latest_charge: an expanded charge, or an id to fetch
LatestCharge(U, S, latest) ==
    IF latest = None THEN S
    ELSE IF latest.expanded THEN AddEmbeddedCharge(U, S, latest.object)
    ELSE IF latest.id \in S.seen_charges THEN S
    ELSE AddFetchedCharge(U, Log(S, Call("Charge.retrieve", latest.id, <<0, None>>)),
                          get_charge(U, latest.id), latest.id)

WithPaymentIntent(U, S, payment_intent) ==
    IF payment_intent = None THEN S
    ELSE LatestCharge(U,
             AddEmbeddedCharges(U,
                 ReverseSearch(U,
                     DirectInvoice(U, S,
                         IF payment_intent.invoice # None
                         THEN _get_invoice_id_from_object(payment_intent.invoice)
                         ELSE None),
                     payment_intent.id),
                 payment_intent.charges, 1),
             payment_intent.latest_charge)

\* source.startswith("pi_")
PaymentIntentSource(U, S, source) ==
    WithPaymentIntent(U, Log(S, Call("PaymentIntent.retrieve", source, <<0, None>>)),
                      get_payment_intent(U, source))

\* the last elif: an unrecognised source of a charge-like entry is tried
\* as a charge
IsChargeLike(bt) ==
    /\ bt.type \in {"charge", "payment", "payment_failure"}
    /\ ~(startswith(bt.source, "payout") \/ startswith(bt.source, "po_"))

AddOtherCharge(U, S, charge) ==
    IF charge = None THEN S
    ELSE IF charge.id \in S.seen_charges THEN S
    ELSE AddChargeWithInvoice(U, S, charge, charge.id)

OtherSource(U, S, source) ==
    AddOtherCharge(U, Log(S, Call("Charge.retrieve", source, <<0, None>>)),
                   get_charge(U, source))

Prefixes == {"ch_", "re_", "dp_", "tr_", "pi_", "py_"}

\* which branch of the if/elif chain a ledger entry takes
Branch(bt) ==
    IF bt.source = None THEN "none"
    ELSE IF bt.source[1] \in Prefixes THEN bt.source[1]
    ELSE IF IsChargeLike(bt) THEN "other"
    ELSE "none"

LedgerBound ==
    IF outages # {} THEN MaxFaultyEntries
    ELSE IF Len(payouts) > 1 THEN MaxSharedEntries
    ELSE MaxEntries

\* the entries the ledger may continue with while the loop runs
NextEntries ==
    IF pc = "resolve" /\ Len(balance_transactions) < LedgerBound
    THEN { LedgerEntry(Len(balance_transactions) + 1, sh[1], sh[2], sh[3], sh[4], sh[5]) :
             sh \in SourceShapes }
    ELSE {}

\* what may go wrong with the lookups `log` of an entry: nothing, or the
\* k-th raises error e, which an except clause around it turns into the
\* absence upstream answered with, or which nothing catches
Failures(U, log) ==
    IF fault # None THEN {None}
    ELSE {None} \cup
         { f \in (DOMAIN log) \X outages :
             f[2] \notin Catchers(log[f[1]]) \/ Absent(U, log[f[1]]) }

IsCaught(f, log) == f = None \/ f[2] \in Catchers(log[f[1]])

Raised(f, log, n) == IF f = None THEN fault ELSE <<log[f[1]], f[2], n>>

\* get_credit_notes_for_invoice returned [] for the error it caught: the
\* entry adds no credit note
Swallowed(f, S) ==
    IF f # None /\ S.calls[f[1]][1] = "CreditNote.list"
    THEN [S EXCEPT !.credit_notes = credit_notes,
                   !.seen_credit_notes = seen_credit_notes]
    ELSE S

\* one iteration of `for bt in balance_transactions`: the fee lines are
\* kept and the branch taken leaves S, upstream having answered as U; an
\* error no except clause catches leaves get_payout_details at the lookup
\* that raised it, the locals dropped
Iterate(bt, U, S) ==
    /\ balance_transactions' = Append(balance_transactions, bt)
    /\ \E f \in Failures(U, S.calls) :
         /\ fault' = Raised(f, S.calls, Len(balance_transactions) + 1)
         /\ IF IsCaught(f, S.calls)
            THEN /\ fees_breakdown' = fees_breakdown \o FeeLines(bt)
                 /\ upstream' = U
                 /\ SetResolved(Swallowed(f, S))
                 /\ pc' = pc
            ELSE /\ pc' = f[2]
                 /\ calls' = SubSeq(S.calls, 1, f[1])
                 /\ UNCHANGED <<fees_breakdown, upstream, charges, refunds, invoices,
                                disputes, transfers, credit_notes, seen_invoices,
                                seen_charges, seen_credit_notes>>
    /\ UNCHANGED <<transactions, totals, outages, batch, elsewhere>>

HandleCharge ==
    \E bt \in NextEntries :
      /\ Branch(bt) = "ch_"
      /\ \E V \in AskCharge(upstream, bt.source) :
           \E S \in {ChargeSource(V, Resolved, bt.source)} :
             Iterate(bt, Remember(upstream, V, bt.source, S.calls), S)

HandlePayment ==
    \E bt \in NextEntries :
      /\ Branch(bt) = "py_"
      /\ \E V \in AskCharge(upstream, bt.source) :
           \E S \in {PaymentSource(V, Resolved, bt.source)} :
             Iterate(bt, Remember(upstream, V, bt.source, S.calls), S)

HandleRefund ==
    \E bt \in NextEntries :
      /\ Branch(bt) = "re_"
      /\ \E V1 \in AskRefund(upstream, bt.source) :
           LET c == V1.refund[bt.source].charge
           IN  IF c = None
               THEN Iterate(bt, V1, RefundSource(V1, Resolved, bt.source))
               ELSE \E V \in AskCharge(V1, c) :
                      \E S \in {RefundSource(V, Resolved, bt.source)} :
                        Iterate(bt, IF Asked(S.calls, "Charge.retrieve", c)
                                    THEN Remember(V1, V, c, S.calls) ELSE V1, S)

HandleDispute ==
    \E bt \in NextEntries :
      /\ Branch(bt) = "dp_"
      /\ \E V \in AskFound(upstream, "dispute", bt.source) :
           Iterate(bt, V, DisputeSource(V, Resolved, bt.source))

HandleTransfer ==
    \E bt \in NextEntries :
      /\ Branch(bt) = "tr_"
      /\ \E V \in AskFound(upstream, "transfer", bt.source) :
           Iterate(bt, V, TransferSource(V, Resolved, bt.source))

HandlePaymentIntent ==
    \E bt \in NextEntries :
      /\ Branch(bt) = "pi_"
      /\ \E V1 \in AskCharge(upstream, ChargeOf(bt.source)) :
           \E V \in AskPaymentIntent(V1, bt.source) :
             \E S \in {PaymentIntentSource(V, Resolved, bt.source)} :
               Iterate(bt, [Remember(upstream, V, ChargeOf(bt.source), S.calls)
                              EXCEPT !.payment_intent =
                                 IF V.charge[ChargeOf(bt.source)].has_pi
                                 THEN @ ELSE upstream.payment_intent], S)

HandleOther ==
    \E bt \in NextEntries :
      /\ Branch(bt) = "other"
      /\ \E V \in AskCharge(upstream, bt.source) :
           \E S \in {OtherSource(V, Resolved, bt.source)} :
             Iterate(bt, Remember(upstream, V, bt.source, S.calls), S)

\* no source, or a source no branch takes: only the fee lines are kept
HandleNothing ==
    \E bt \in NextEntries :
      /\ Branch(bt) = "none"
      /\ Iterate(bt, upstream, Resolved)

\* the ledger is exhausted: get_payout_details returns
ReturnDetails ==
    /\ pc = "resolve"
    /\ pc' = "resolved"
    /\ UNCHANGED <<balance_transactions, transactions, totals, entities, failure, batch, elsewhere>>

\* the same loop with a payment processor that may raise any error class
InitFault ==
    /\ pc = "resolve"
    /\ balance_transactions = <<>>
    /\ transactions = <<>>
    /\ total_paiements = 0
    /\ total_remboursements = 0
    /\ total_frais = 0
    /\ total_litiges = 0
    /\ total_echecs_paiement = 0
    /\ total_autres = 0
    /\ charges = <<>>
    /\ refunds = <<>>
    /\ invoices = <<>>
    /\ disputes = <<>>
    /\ transfers = <<>>
    /\ credit_notes = <<>>
    /\ fees_breakdown = <<>>
    /\ seen_invoices = {}
    /\ seen_charges = {}
    /\ seen_credit_notes = {}
    /\ calls = <<>>
    /\ upstream = NoAnswers
    /\ outages = ErrorClasses
    /\ fault = None
    /\ payouts = <<>>
    /\ attempted = <<>>
    /\ reported = <<>>
    /\ exported_files = <<>>
    /\ invoked = <<>>
    /\ payout_folders = <<>>
    /\ complete_zip = None
    /\ fee_records = <<>>
    /\ payout_details = <<>>
    /\ downloads = <<>>
    /\ futures = <<>>
    /\ results = <<>>
    /\ printed = <<>>
    /\ args = None
    /\ ret = None

InitResolve ==
    /\ pc = "resolve"
    /\ balance_transactions = <<>>
    /\ transactions = <<>>
    /\ total_paiements = 0
    /\ total_remboursements = 0
    /\ total_frais = 0
    /\ total_litiges = 0
    /\ total_echecs_paiement = 0
    /\ total_autres = 0
    /\ charges = <<>>
    /\ refunds = <<>>
    /\ invoices = <<>>
    /\ disputes = <<>>
    /\ transfers = <<>>
    /\ credit_notes = <<>>
    /\ fees_breakdown = <<>>
    /\ seen_invoices = {}
    /\ seen_charges = {}
    /\ seen_credit_notes = {}
    /\ calls = <<>>
    /\ upstream = NoAnswers
    /\ outages = {}
    /\ fault = None
    /\ payouts = <<>>
    /\ attempted = <<>>
    /\ reported = <<>>
    /\ exported_files = <<>>
    /\ invoked = <<>>
    /\ payout_folders = <<>>
    /\ complete_zip = None
    /\ fee_records = <<>>
    /\ payout_details = <<>>
    /\ downloads = <<>>
    /\ futures = <<>>
    /\ results = <<>>
    /\ printed = <<>>
    /\ args = None
    /\ ret = None

NextResolve ==
    \/ HandleCharge
    \/ HandleRefund
    \/ HandleDispute
    \/ HandleTransfer
    \/ HandlePaymentIntent
    \/ HandlePayment
    \/ HandleOther
    \/ HandleNothing
    \/ ReturnDetails

SpecResolve == InitResolve /\ [][NextResolve]_vars

SpecFault == InitFault /\ [][NextResolve]_vars

-----------------------------------------------------------------------------
(* Several payouts in one run: main calls export_payout for each, which    *)
(* calls get_payout_details; process_payout_data then raises and the loop  *)
(* of main goes on to the next payout.                                     *)

\* a payout main lists, with what get_payout_details does for it
Payout(n, details) == [id |-> <<"po_", n>>, details |-> details]

\* the dict get_payout_details returns
ReturnedDetails ==
    [balance_transactions |-> balance_transactions,
     charges |-> charges, refunds |-> refunds, invoices |-> invoices,
     disputes |-> disputes, transfers |-> transfers,
     credit_notes |-> credit_notes, fees_breakdown |-> fees_breakdown]

\* the next call with the seen-sets kept from the call before
StartDetails_KeepSeen ==
    /\ pc = "resolved"
    /\ Len(payout_details) + 1 < Len(payouts)
    /\ payout_details' = Append(payout_details, ReturnedDetails)
    /\ pc' = "resolve"
    /\ balance_transactions' = <<>>
    /\ charges' = <<>>
    /\ refunds' = <<>>
    /\ invoices' = <<>>
    /\ disputes' = <<>>
    /\ transfers' = <<>>
    /\ credit_notes' = <<>>
    /\ fees_breakdown' = <<>>
    /\ calls' = <<>>
    /\ UNCHANGED <<seen_invoices, seen_charges, seen_credit_notes>>
    /\ UNCHANGED <<upstream, transactions, totals, failure, batch, fee_records,
                   download, utilities>>

\* the call for the next payout: every collection and seen-set is a local
\* of get_payout_details, created empty
StartDetails ==
    /\ pc = "resolved"
    /\ Len(payout_details) + 1 < Len(payouts)
    /\ payout_details' = Append(payout_details, ReturnedDetails)
    /\ pc' = "resolve"
    /\ balance_transactions' = <<>>
    /\ charges' = <<>>
    /\ refunds' = <<>>
    /\ invoices' = <<>>
    /\ disputes' = <<>>
    /\ transfers' = <<>>
    /\ credit_notes' = <<>>
    /\ fees_breakdown' = <<>>
    /\ seen_invoices' = {}
    /\ seen_charges' = {}
    /\ seen_credit_notes' = {}
    /\ calls' = <<>>
    /\ UNCHANGED <<upstream, transactions, totals, failure, batch, fee_records,
                   download, utilities>>

InitRuns ==
    /\ pc = "resolve"
    /\ balance_transactions = <<>>
    /\ transactions = <<>>
    /\ total_paiements = 0
    /\ total_remboursements = 0
    /\ total_frais = 0
    /\ total_litiges = 0
    /\ total_echecs_paiement = 0
    /\ total_autres = 0
    /\ charges = <<>>
    /\ refunds = <<>>
    /\ invoices = <<>>
    /\ disputes = <<>>
    /\ transfers = <<>>
    /\ credit_notes = <<>>
    /\ fees_breakdown = <<>>
    /\ seen_invoices = {}
    /\ seen_charges = {}
    /\ seen_credit_notes = {}
    /\ calls = <<>>
    /\ upstream = NoAnswers
    /\ outages = {}
    /\ fault = None
    /\ payouts = [k \in 1..MaxRuns |-> Payout(k, "ok")]
    /\ attempted = <<>>
    /\ reported = <<>>
    /\ exported_files = <<>>
    /\ invoked = <<>>
    /\ payout_folders = <<>>
    /\ complete_zip = None
    /\ fee_records = <<>>
    /\ payout_details = <<>>
    /\ downloads = <<>>
    /\ futures = <<>>
    /\ results = <<>>
    /\ printed = <<>>
    /\ args = None
    /\ ret = None

NextRuns == NextResolve \/ StartDetails

SpecRuns == InitRuns /\ [][NextRuns]_vars

-----------------------------------------------------------------------------
(* main and export_payout: one payout, or every payout of a date range *)

\* the value of `raised` when a call returned
NoError == "none"

\* what client.get_payout_details(p.id) does for a payout: it returns, or an
\* error of upstream leaves it
DetailsOutcomes == {"ok"} \cup ErrorClasses

\* process_payout_data(raw_data): the loops complete, then the call of
\* PayoutSummary raises TypeError (CreateSummary) and no bundle is returned
process_payout_data(raw_data) == [raised |-> "TypeError", export_data |-> None]

\* export_payout after the two calls: the three exporters and the archive
ExportBundle(p, data) ==
    IF data.raised # NoError
    THEN [raised |-> data.raised, invoked |-> <<>>, zip_path |-> None]
    ELSE [raised |-> NoError,
          invoked |-> <<"CSVExporter", "ExcelExporter", "PDFExporter">>,
          zip_path |-> <<"payout_", p.id, ".zip">>]

\* export_payout with the CSV export ahead of process_payout_data
export_payout_CsvFirst(p) ==
    IF p.details # "ok"
    THEN [raised |-> p.details, invoked |-> <<>>, zip_path |-> None]
    ELSE [ExportBundle(p, process_payout_data(p.id)) EXCEPT !.invoked = <<"CSVExporter">>]

\* what a call of export_payout raises, the exporters it ran, and its return
export_payout(p) ==
    IF p.details # "ok"
    THEN [raised |-> p.details, invoked |-> <<>>, zip_path |-> None]
    ELSE ExportBundle(p, process_payout_data(p.id))

\* `os.path.basename(zip_path).replace('.zip', '')`
FolderName(zip_path) == SubSeq(zip_path, 1, Len(zip_path) - 1)

Invocations(p, r) == [k \in DOMAIN r.invoked |-> <<p.id, r.invoked[k]>>]

\* --payout: an error of the one export reaches the outer handler; with
\* no error main goes on as after the loop of the date range
SinglePayout ==
    /\ pc = "main"
    /\ \E details \in DetailsOutcomes :
         \E r \in {export_payout(Payout(1, details))} :
           /\ payouts' = <<Payout(1, details)>>
           /\ attempted' = <<Payout(1, details).id>>
           /\ invoked' = Invocations(Payout(1, details), r)
           /\ IF r.raised # NoError
              THEN /\ reported' = Append(reported, <<"Erreur fatale", None, r.raised>>)
                   /\ pc' = "exit_1"
                   /\ UNCHANGED <<exported_files, payout_folders>>
              ELSE /\ exported_files' = Append(exported_files, r.zip_path)
                   /\ payout_folders' = Append(payout_folders, FolderName(r.zip_path))
                   /\ pc' = "batch"
                   /\ UNCHANGED reported
    /\ UNCHANGED <<balance_transactions, transactions, totals, entities, failure,
                   complete_zip, elsewhere>>

\* --from/--to: `payouts = list(client.list_payouts(...))`; no payout exits 0
ListPayouts ==
    /\ pc = "main"
    /\ \E n \in 0..MaxPayouts :
         \E details \in [1..n -> DetailsOutcomes] :
           /\ payouts' = [k \in 1..n |-> Payout(k, details[k])]
           /\ pc' = IF n = 0 THEN "exit_0" ELSE "batch"
    /\ UNCHANGED <<balance_transactions, transactions, totals, entities, failure,
                   attempted, reported, exported_files, invoked,
                   payout_folders, complete_zip, elsewhere>>

\* the listing raises: the outer handler reports and exits 1
ListPayoutsFails ==
    /\ pc = "main"
    /\ \E e \in ErrorClasses :
         reported' = Append(reported, <<"Erreur fatale", None, e>>)
    /\ pc' = "exit_1"
    /\ UNCHANGED <<balance_transactions, transactions, totals, entities, failure,
                   payouts, attempted, exported_files, invoked,
                   payout_folders, complete_zip, elsewhere>>

\* the loop with no try around export_payout
ExportNext_Abort ==
    /\ pc = "batch"
    /\ Len(attempted) < Len(payouts)
    /\ \E p \in {payouts[Len(attempted) + 1]} :
         \E r \in {export_payout(p)} :
           /\ attempted' = Append(attempted, p.id)
           /\ invoked' = invoked \o Invocations(p, r)
           /\ IF r.raised # NoError
              THEN /\ reported' = Append(reported, <<"Erreur fatale", None, r.raised>>)
                   /\ pc' = "exit_1"
                   /\ UNCHANGED <<exported_files, payout_folders>>
              ELSE /\ exported_files' = Append(exported_files, r.zip_path)
                   /\ payout_folders' = Append(payout_folders, FolderName(r.zip_path))
                   /\ UNCHANGED <<pc, reported>>
    /\ UNCHANGED <<balance_transactions, transactions, totals, entities, failure,
                   payouts, complete_zip, elsewhere>>

\* the loop with the archive and the folder recorded before export_payout
\* has returned
ExportNext_KeepFailed ==
    /\ pc = "batch"
    /\ Len(attempted) < Len(payouts)
    /\ \E p \in {payouts[Len(attempted) + 1]} :
         \E r \in {export_payout(p)} :
           /\ attempted' = Append(attempted, p.id)
           /\ invoked' = invoked \o Invocations(p, r)
           /\ exported_files' = Append(exported_files, <<"payout_", p.id, ".zip">>)
           /\ payout_folders' = Append(payout_folders, <<"payout_", p.id>>)
           /\ IF r.raised # NoError
              THEN reported' = Append(reported, <<"Erreur pour", p.id, r.raised>>)
              ELSE UNCHANGED reported
    /\ UNCHANGED <<pc, balance_transactions, transactions, totals, entities, failure,
                   payouts, complete_zip, elsewhere>>

\* one iteration of `for p in payouts`: try export_payout, except Exception
\* echo the error and continue
ExportNext ==
    /\ pc = "batch"
    /\ Len(attempted) < Len(payouts)
    /\ \E p \in {payouts[Len(attempted) + 1]} :
         \E r \in {export_payout(p)} :
           /\ attempted' = Append(attempted, p.id)
           /\ invoked' = invoked \o Invocations(p, r)
           /\ IF r.raised # NoError
              THEN /\ reported' = Append(reported, <<"Erreur pour", p.id, r.raised>>)
                   /\ UNCHANGED <<exported_files, payout_folders>>
              ELSE /\ exported_files' = Append(exported_files, r.zip_path)
                   /\ payout_folders' = Append(payout_folders, FolderName(r.zip_path))
                   /\ UNCHANGED reported
    /\ UNCHANGED <<pc, balance_transactions, transactions, totals, entities, failure,
                   payouts, complete_zip, elsewhere>>

\* `if payout_folders: complete_zip = create_complete_export_zip(...)`
CompleteExport(folders) ==
    IF folders # <<>> THEN <<"export_comptable_complet.zip", folders>> ELSE None

\* after the exports: the guide, the complete archive and the recapitulation,
\* or an error of the guide or of the archive reaches the outer handler
GenerateGuide ==
    /\ pc = "batch"
    /\ Len(attempted) = Len(payouts)
    /\ \E ok \in BOOLEAN :
         IF ok
         THEN /\ pc' = "done"
              /\ complete_zip' = CompleteExport(payout_folders)
              /\ UNCHANGED reported
         ELSE /\ pc' = "exit_1"
              /\ reported' = Append(reported, <<"Erreur fatale", None, "OSError">>)
              /\ UNCHANGED complete_zip
    /\ UNCHANGED <<balance_transactions, transactions, totals, entities, failure,
                   payouts, attempted, exported_files, invoked, payout_folders,
                   elsewhere>>

InitBatch ==
    /\ pc = "main"
    /\ balance_transactions = <<>>
    /\ transactions = <<>>
    /\ total_paiements = 0
    /\ total_remboursements = 0
    /\ total_frais = 0
    /\ total_litiges = 0
    /\ total_echecs_paiement = 0
    /\ total_autres = 0
    /\ charges = <<>>
    /\ refunds = <<>>
    /\ invoices = <<>>
    /\ disputes = <<>>
    /\ transfers = <<>>
    /\ credit_notes = <<>>
    /\ fees_breakdown = <<>>
    /\ seen_invoices = {}
    /\ seen_charges = {}
    /\ seen_credit_notes = {}
    /\ upstream = <<>>
    /\ calls = <<>>
    /\ outages = {}
    /\ fault = None
    /\ payouts = <<>>
    /\ attempted = <<>>
    /\ reported = <<>>
    /\ exported_files = <<>>
    /\ invoked = <<>>
    /\ payout_folders = <<>>
    /\ complete_zip = None
    /\ fee_records = <<>>
    /\ payout_details = <<>>
    /\ downloads = <<>>
    /\ futures = <<>>
    /\ results = <<>>
    /\ printed = <<>>
    /\ args = None
    /\ ret = None

NextBatch ==
    \/ SinglePayout
    \/ ListPayouts
    \/ ListPayoutsFails
    \/ ExportNext
    \/ GenerateGuide

SpecBatch == InitBatch /\ [][NextBatch]_vars

-----------------------------------------------------------------------------
(* InvoiceDownloader: download_all and download_all_credit_notes.  The main *)
(* thread submits one future per record with a PDF URL to a pool of         *)
(* max_workers threads and consumes the futures as they complete.           *)

Numbers == {<<"F-", 1>>, <<"F-", 2>>, <<"F-", 3>>}

\* an InvoiceRecord or CreditNoteRecord, as far as the downloader reads it
PdfRecord(numero, pdf_url) == [numero |-> numero, pdf_url |-> pdf_url]

\* what a worker's call ends with: the path of the file written, None (no
\* URL, or a RequestException or IOError caught), or another exception
WorkerOutcomes(f) ==
    { <<f.dir, f.prefix, f.record.numero, ".pdf">>, None, <<"raised">> }

IsPath(outcome) == Len(outcome) = 4

\* `{executor.submit(...): rec for rec in records_with_pdf}`
Submitted(records, dir, prefix) ==
    [k \in DOMAIN SelectSeq(records, LAMBDA r : r.pdf_url) |->
        [record |-> SelectSeq(records, LAMBDA r : r.pdf_url)[k],
         dir |-> dir, prefix |-> prefix, state |-> "queued", outcome |-> None]]

\* download_all up to the submission of the futures
SubmitInvoices ==
    /\ pc = "download"
    /\ futures' = Submitted(downloads, "factures", "")
    /\ IF futures' = <<>>
       THEN /\ printed' = Append(printed, <<"Aucune facture PDF">>)
            /\ pc' = "returned"
       ELSE /\ printed' = Append(printed, <<"Telechargement de", Len(futures')>>)
            /\ pc' = "as_completed"
    /\ UNCHANGED <<downloads, results>>
    /\ UNCHANGED <<balance_transactions, transactions, totals, entities, failure, batch,
                   fee_records, payout_details, utilities>>

\* download_all_credit_notes up to the submission of the futures
SubmitCreditNotes ==
    /\ pc = "download"
    /\ futures' = Submitted(downloads, "avoirs", "avoir_")
    /\ IF futures' = <<>>
       THEN /\ pc' = "returned"
            /\ UNCHANGED printed
       ELSE /\ printed' = Append(printed, <<"Telechargement de", Len(futures')>>)
            /\ pc' = "as_completed"
    /\ UNCHANGED <<downloads, results>>
    /\ UNCHANGED <<balance_transactions, transactions, totals, entities, failure, batch,
                   fee_records, payout_details, utilities>>

Running == {i \in DOMAIN futures : futures[i].state = "running"}

Queued == {i \in DOMAIN futures : futures[i].state = "queued"}

\* a free worker thread takes the oldest queued call
WorkerStart ==
    /\ pc = "as_completed"
    /\ Cardinality(Running) < MaxWorkers
    /\ Queued # {}
    /\ \E i \in Queued :
         /\ \A j \in Queued : i <= j
         /\ futures' = [futures EXCEPT ![i].state = "running"]
    /\ UNCHANGED <<pc, downloads, results, printed>>
    /\ UNCHANGED <<balance_transactions, transactions, totals, entities, failure, batch,
                   fee_records, payout_details, utilities>>

\* _download_single / _download_credit_note ends in a worker thread
WorkerFinish ==
    /\ pc = "as_completed"
    /\ \E i \in Running :
         \E outcome \in WorkerOutcomes(futures[i]) :
           futures' = [futures EXCEPT ![i].state = "done", ![i].outcome = outcome]
    /\ UNCHANGED <<pc, downloads, results, printed>>
    /\ UNCHANGED <<balance_transactions, transactions, totals, entities, failure, batch,
                   fee_records, payout_details, utilities>>

\* the loop over as_completed with an exception of a future ending it
Consume_StopOnError ==
    /\ pc = "as_completed"
    /\ \E i \in DOMAIN futures :
         /\ futures[i].state = "done"
         /\ futures' = [futures EXCEPT ![i].state = "consumed"]
         /\ IF futures[i].outcome = <<"raised">>
            THEN /\ pc' = "returned"
                 /\ printed' = Append(printed, <<"erreur", futures[i].record.numero>>)
                 /\ UNCHANGED results
            ELSE /\ pc' = pc
                 /\ IF IsPath(futures[i].outcome)
                    THEN /\ results' = (futures[i].record.numero :> futures[i].outcome)
                                          @@ results
                         /\ printed' = Append(printed, <<"ok", futures[i].record.numero>>)
                    ELSE /\ printed' = Append(printed, <<"pas de PDF", futures[i].record.numero>>)
                         /\ UNCHANGED results
    /\ UNCHANGED downloads
    /\ UNCHANGED <<balance_transactions, transactions, totals, entities, failure, batch,
                   fee_records, payout_details, utilities>>

\* one iteration of `for future in as_completed(...)`: any completed future
\* not yet consumed; its path goes to results, None and an exception are
\* printed
Consume ==
    /\ pc = "as_completed"
    /\ \E i \in DOMAIN futures :
         /\ futures[i].state = "done"
         /\ futures' = [futures EXCEPT ![i].state = "consumed"]
         /\ IF IsPath(futures[i].outcome)
            THEN /\ results' = (futures[i].record.numero :> futures[i].outcome) @@ results
                 /\ printed' = Append(printed, <<"ok", futures[i].record.numero>>)
            ELSE /\ printed' =
                      Append(printed, <<IF futures[i].outcome = None
                                        THEN "pas de PDF" ELSE "erreur",
                                        futures[i].record.numero>>)
                 /\ UNCHANGED results
    /\ UNCHANGED <<pc, downloads>>
    /\ UNCHANGED <<balance_transactions, transactions, totals, entities, failure, batch,
                   fee_records, payout_details, utilities>>

\* every future was consumed: the count is printed and results returned
ReturnResults ==
    /\ pc = "as_completed"
    /\ \A i \in DOMAIN futures : futures[i].state = "consumed"
    /\ printed' = Append(printed, <<"Telechargement termine",
                                    Cardinality(DOMAIN results), Len(futures)>>)
    /\ pc' = "returned"
    /\ UNCHANGED <<downloads, futures, results>>
    /\ UNCHANGED <<balance_transactions, transactions, totals, entities, failure, batch,
                   fee_records, payout_details, utilities>>

RecordLists ==
    UNION { [1..n -> {PdfRecord(numero, url) : numero \in Numbers, url \in BOOLEAN}] :
              n \in 0..MaxDownloads }

InitDownload ==
    /\ pc = "download"
    /\ downloads \in RecordLists
    /\ futures = <<>>
    /\ results = <<>>
    /\ printed = <<>>
    /\ balance_transactions = <<>>
    /\ transactions = <<>>
    /\ total_paiements = 0
    /\ total_remboursements = 0
    /\ total_frais = 0
    /\ total_litiges = 0
    /\ total_echecs_paiement = 0
    /\ total_autres = 0
    /\ charges = <<>>
    /\ refunds = <<>>
    /\ invoices = <<>>
    /\ disputes = <<>>
    /\ transfers = <<>>
    /\ credit_notes = <<>>
    /\ fees_breakdown = <<>>
    /\ seen_invoices = {}
    /\ seen_charges = {}
    /\ seen_credit_notes = {}
    /\ upstream = <<>>
    /\ calls = <<>>
    /\ outages = {}
    /\ fault = None
    /\ payouts = <<>>
    /\ attempted = <<>>
    /\ reported = <<>>
    /\ exported_files = <<>>
    /\ invoked = <<>>
    /\ payout_folders = <<>>
    /\ complete_zip = None
    /\ fee_records = <<>>
    /\ payout_details = <<>>
    /\ args = None
    /\ ret = None

NextDownload ==
    \/ SubmitInvoices
    \/ SubmitCreditNotes
    \/ WorkerStart
    \/ WorkerFinish
    \/ Consume
    \/ ReturnResults

SpecDownload == InitDownload /\ [][NextDownload]_vars

-----------------------------------------------------------------------------
(* utils: get_customer_display_name and get_stripe_dashboard_url.  A Python *)
(* str is <<"str", text>> for the first, and the sequence of its characters *)
(* for the second, whose prefix tests read it character by character.       *)

Str(text) == <<"str", text>>

\* a Stripe object with the attributes it holds
Object(attrs) == <<"object", attrs>>

\* Python truth: None, '' and an object without attributes are false
Truthy(v) ==
    /\ v # None
    /\ v # Str("")
    /\ v[1] = "object" => DOMAIN v[2] # {}

isinstance_str(v) == v # None /\ v[1] = "str"

hasattr(v, name) == v[1] = "object" /\ name \in DOMAIN v[2]

\* the function with email tried before name
get_customer_display_name_EmailFirst(customer) ==
    IF ~Truthy(customer) THEN Str("")
    ELSE IF isinstance_str(customer) THEN customer
    ELSE IF hasattr(customer, "email") /\ Truthy(customer[2].email) THEN customer[2].email
    ELSE IF hasattr(customer, "name") /\ Truthy(customer[2].name) THEN customer[2].name
    ELSE IF hasattr(customer, "id") THEN customer[2].id
    ELSE <<"str()", customer>>

get_customer_display_name(customer) ==
    IF ~Truthy(customer) THEN Str("")
    ELSE IF isinstance_str(customer) THEN customer
    ELSE IF hasattr(customer, "name") /\ Truthy(customer[2].name) THEN customer[2].name
    ELSE IF hasattr(customer, "email") /\ Truthy(customer[2].email) THEN customer[2].email
    ELSE IF hasattr(customer, "id") THEN customer[2].id
    ELSE <<"str()", customer>>

\* the customers a charge, invoice or credit note may hold: none, a bare
\* identifier, or an expanded object, which always has an id
AttributeValues(text) == {None, Str(""), Str(text)}

CustomerObjects ==
    { Object(attrs) :
        attrs \in UNION { [fields \cup {"id"} -> {None, Str(""), Str("Alice"),
                                                   Str("a@x.fr"), Str("cus_1"), Str("cus_2")}] :
                            fields \in SUBSET {"name", "email"} } }

Customers ==
    {None, Str(""), Str("cus_1"), Str("cus_2")}
    \cup { c \in CustomerObjects :
             /\ c[2].id \in {Str("cus_1"), Str("cus_2")}
             /\ hasattr(c, "name") => c[2].name \in AttributeValues("Alice")
             /\ hasattr(c, "email") => c[2].email \in AttributeValues("a@x.fr") }

\* str.startswith on sequences of characters
str_startswith(s, prefix) ==
    Len(s) >= Len(prefix) /\ SubSeq(s, 1, Len(prefix)) = prefix

\* url_mappings, in the order the dict iterates
url_mappings ==
    << << <<"c", "h", "_">>, "payments" >>,
       << <<"p", "i", "_">>, "payments" >>,
       << <<"p", "y", "_">>, "payments" >>,
       << <<"r", "e", "_">>, "refunds" >>,
       << <<"p", "o", "_">>, "payouts" >>,
       << <<"d", "p", "_">>, "disputes" >>,
       << <<"i", "n", "_">>, "invoices" >>,
       << <<"c", "u", "s", "_">>, "customers" >>,
       << <<"s", "u", "b", "_">>, "subscriptions" >>,
       << <<"t", "r", "_">>, "connect/transfers" >> >>

base_url == "https://dashboard.stripe.com"

\* the function with the account segment never written
RECURSIVE DashboardLookup_NoAccount(_, _, _)
DashboardLookup_NoAccount(stripe_id, account_id, k) ==
    IF k > Len(url_mappings) THEN None
    ELSE IF str_startswith(stripe_id, url_mappings[k][1])
    THEN <<base_url, url_mappings[k][2], stripe_id>>
    ELSE DashboardLookup_NoAccount(stripe_id, account_id, k + 1)

\* `for prefix, path in url_mappings.items()`: the first prefix that matches
RECURSIVE DashboardLookup(_, _, _)
DashboardLookup(stripe_id, account_id, k) ==
    IF k > Len(url_mappings) THEN None
    ELSE IF str_startswith(stripe_id, url_mappings[k][1])
    THEN IF account_id # None /\ account_id # <<>>
         THEN <<base_url, account_id, url_mappings[k][2], stripe_id>>
         ELSE <<base_url, url_mappings[k][2], stripe_id>>
    ELSE DashboardLookup(stripe_id, account_id, k + 1)

\* a URL is the sequence of the segments the f-string joins with "/"
get_stripe_dashboard_url(stripe_id, account_id) ==
    IF stripe_id = None \/ stripe_id = <<>> THEN None
    ELSE IF str_startswith(stripe_id, <<"t", "x", "n", "_">>) THEN None
    ELSE DashboardLookup(stripe_id, account_id, 1)

\* identifiers: one of each prefix of the table, bare prefixes, ledger-entry
\* references, the empty string, and prefixes the table does not have
StripeIds ==
    { url_mappings[k][1] \o <<"1">> : k \in DOMAIN url_mappings }
    \cup { url_mappings[k][1] \o <<"1", "_", "2">> : k \in {1, 8} }
    \cup { <<"c", "h", "_">>, <<"t", "r", "_">> }
    \cup { <<"t", "x", "n", "_", "1">>, <<"t", "x", "n", "_">>, <<"t", "x", "n">>,
           <<>>,
           <<"c", "n", "_", "1">>, <<"a", "c", "c", "t", "_", "1">>,
           <<"e", "v", "t", "_", "1">>, <<"c", "h", "1">>, <<"c", "h">>, <<"c">>,
           <<"C", "h", "_", "1">>, <<"x", "c", "h", "_", "1">>, <<"t", "r">>,
           <<"s", "u", "b">>, <<"c", "u", "_", "1">>, <<"_", "1">>, <<"1">> }

AccountIds == {None, <<"a", "c", "c", "t", "_", "1">>, <<"a", "c", "c", "t", "_", "2">>}

UtilsCalls ==
    { <<"get_customer_display_name", c>> : c \in Customers }
    \cup { <<"get_stripe_dashboard_url", i, a>> : i \in StripeIds, a \in AccountIds }

CallDisplayName ==
    /\ pc = "call"
    /\ args[1] = "get_customer_display_name"
    /\ ret' = get_customer_display_name(args[2])
    /\ pc' = "returned"
    /\ UNCHANGED <<args, balance_transactions, transactions, totals, entities, failure,
                   batch, fee_records, payout_details, download>>

CallDashboardUrl ==
    /\ pc = "call"
    /\ args[1] = "get_stripe_dashboard_url"
    /\ ret' = get_stripe_dashboard_url(args[2], args[3])
    /\ pc' = "returned"
    /\ UNCHANGED <<args, balance_transactions, transactions, totals, entities, failure,
                   batch, fee_records, payout_details, download>>

InitUtils ==
    /\ pc = "call"
    /\ args \in UtilsCalls
    /\ ret = None
    /\ balance_transactions = <<>>
    /\ transactions = <<>>
    /\ total_paiements = 0
    /\ total_remboursements = 0
    /\ total_frais = 0
    /\ total_litiges = 0
    /\ total_echecs_paiement = 0
    /\ total_autres = 0
    /\ charges = <<>>
    /\ refunds = <<>>
    /\ invoices = <<>>
    /\ disputes = <<>>
    /\ transfers = <<>>
    /\ credit_notes = <<>>
    /\ fees_breakdown = <<>>
    /\ seen_invoices = {}
    /\ seen_charges = {}
    /\ seen_credit_notes = {}
    /\ upstream = <<>>
    /\ calls = <<>>
    /\ outages = {}
    /\ fault = None
    /\ payouts = <<>>
    /\ attempted = <<>>
    /\ reported = <<>>
    /\ exported_files = <<>>
    /\ invoked = <<>>
    /\ payout_folders = <<>>
    /\ complete_zip = None
    /\ fee_records = <<>>
    /\ payout_details = <<>>
    /\ downloads = <<>>
    /\ futures = <<>>
    /\ results = <<>>
    /\ printed = <<>>

NextUtils == CallDisplayName \/ CallDashboardUrl

SpecUtils == InitUtils /\ [][NextUtils]_vars

-----------------------------------------------------------------------------
(* Properties of the aggregation *)

RECURSIVE GrossSum(_)
GrossSum(s) == IF s = <<>> THEN 0
               ELSE cents_to_decimal(Head(s).amount) + GrossSum(Tail(s))

OfTypes(types) == SelectSeq(balance_transactions, LAMBDA b : b.type \in types)

NotOfTypes(types) == SelectSeq(balance_transactions, LAMBDA b : b.type \notin types)

FeeTypes == {"stripe_fee", "application_fee"}
RefundTypes == {"refund"}
DisputeTypes == {"dispute", "dispute_won", "dispute_lost"}
FailureTypes == {"payment_failure", "payment_failure_refund"}

\* the gross amounts a magnitude category absorbed all have one sign
OneSign(types) ==
    \/ \A k \in DOMAIN OfTypes(types) : OfTypes(types)[k].amount >= 0
    \/ \A k \in DOMAIN OfTypes(types) : OfTypes(types)[k].amount <= 0

SignOf(types) ==
    IF \E k \in DOMAIN OfTypes(types) : OfTypes(types)[k].amount < 0 THEN -1 ELSE 1

SignedCategorySum ==
    total_paiements + total_autres
    + SignOf(RefundTypes) * total_remboursements
    + SignOf(DisputeTypes) * total_litiges
    + SignOf(FailureTypes) * total_echecs_paiement

SignsAgree == OneSign(RefundTypes) /\ OneSign(DisputeTypes) /\ OneSign(FailureTypes)

\* C2 as stated: the non-fee accumulators, signed, sum to the gross of every
\* entry that is neither payout nor payout_failure.
CategorySumIsNonPayoutGross ==
    (pc = "aggregated" /\ SignsAgree)
        => SignedCategorySum = GrossSum(NotOfTypes(PayoutTypes))

\* C2 amended: the non-fee accumulators, signed, sum to the gross of every
\* entry that is none of payout, payout_failure, stripe_fee, application_fee
\* (the gross of a fee-type entry goes to the fee accumulator).
CategorySumIsNonFeeGross ==
    (pc = "aggregated" /\ SignsAgree)
        => SignedCategorySum = GrossSum(NotOfTypes(PayoutTypes \cup FeeTypes))

CategorySumWitness ==
    /\ pc = "aggregated"
    /\ SignsAgree
    /\ Len(OfTypes(FeeTypes)) > 0
    /\ Len(OfTypes(RefundTypes)) > 0
    /\ Len(OfTypes({"charge", "payment"})) > 0
    /\ Len(OfTypes(PayoutTypes)) > 0
    /\ total_remboursements > 0

\* the loop has just iterated one more ledger entry
Iterated == Len(balance_transactions') = Len(balance_transactions) + 1

LastEntry == balance_transactions'[Len(balance_transactions')]

\* C3: an entry of type payout or payout_failure adds no transaction row and
\* leaves the six category totals as they were, wherever it occurs.
PayoutEntryIsExcluded ==
    [][(Iterated /\ LastEntry.type \in PayoutTypes)
          => (transactions' = transactions /\ totals' = totals)]_vars

PayoutEntryWitness ==
    /\ Len(balance_transactions) >= 3
    /\ balance_transactions[1].type = "payment"
    /\ balance_transactions[2].type = "payout_failure"
    /\ balance_transactions[3].type = "payout"
    /\ Len(transactions) = Len(balance_transactions) - 2
    /\ total_paiements > 0

IsScenario ==
    /\ Len(OfTypes(PayoutTypes)) = 1
    /\ OfTypes(PayoutTypes)[1].type = "payout"
    /\ Len(NotOfTypes(PayoutTypes)) = 3
    /\ LET e == NotOfTypes(PayoutTypes)
       IN  /\ <<e[1].type, e[1].amount, e[1].fee>> = <<"payment", 10000, 290>>
           /\ <<e[2].type, e[2].amount, e[2].fee>> = <<"stripe_fee", -50, 0>>
           /\ <<e[3].type, e[3].amount, e[3].fee>> = <<"refund", -3000, 0>>

\* C9: payment 10000/290, stripe_fee -50/0, refund -3000/0 and the payout's
\* own entry give payments 10000, fees 340, refunds 3000, other 0, 3 rows.
ScenarioTotals ==
    (pc = "aggregated" /\ IsScenario)
        => /\ total_paiements = 10000
           /\ total_frais = 340
           /\ total_remboursements = 3000
           /\ total_autres = 0
           /\ Len(transactions) = 3

ScenarioWitness == pc = "aggregated" /\ IsScenario /\ total_frais = 340

\* C10: a non-payout entry changes the one category amount its type selects
\* by its gross (magnitude, or signed for payments and other), and the fee
\* total grows by |fee| unless the type is stripe_fee or application_fee,
\* for which it grows by |gross|.
EntryEffect(bt) ==
    LET gross == bt.amount
        cat == IF bt.type \in {"charge", "payment"} THEN "paiements"
               ELSE IF bt.type \in RefundTypes THEN "remboursements"
               ELSE IF bt.type \in FailureTypes THEN "echecs_paiement"
               ELSE IF bt.type \in FeeTypes THEN "frais"
               ELSE IF bt.type \in DisputeTypes THEN "litiges"
               ELSE "autres"
        D(name, delta) == IF cat = name THEN delta ELSE 0
    IN  /\ total_paiements' = total_paiements + D("paiements", gross)
        /\ total_remboursements' = total_remboursements + D("remboursements", Abs(gross))
        /\ total_echecs_paiement' = total_echecs_paiement + D("echecs_paiement", Abs(gross))
        /\ total_litiges' = total_litiges + D("litiges", Abs(gross))
        /\ total_autres' = total_autres + D("autres", gross)
        /\ total_frais' = total_frais + D("frais", Abs(gross))
                          + (IF bt.type \in FeeTypes THEN 0 ELSE Abs(bt.fee))

EntryChangesOneCategory ==
    [][(Iterated /\ LastEntry.type \notin PayoutTypes) => EntryEffect(LastEntry)]_vars

EntryEffectWitness ==
    /\ Len(balance_transactions) >= 3
    /\ balance_transactions[1].type = "application_fee"
    /\ balance_transactions[2].type = "dispute_won"
    /\ balance_transactions[3].type = "transfer"
    /\ total_frais = 25 + 1500 + 10
    /\ total_litiges = 2000
    /\ total_autres = 70

IsZeroEntry(bt) == bt.type \notin PayoutTypes /\ bt.amount = 0 /\ bt.fee = 0

\* the count the summary call passes for the category of an entry type
EntryCount(type) ==
    IF type \in RefundTypes THEN nb_remboursements
    ELSE IF type \in DisputeTypes THEN nb_litiges
    ELSE nb_transactions

CategoryOf(type) ==
    IF type \in RefundTypes THEN RefundTypes
    ELSE IF type \in DisputeTypes THEN DisputeTypes
    ELSE {type}

\* C12: a non-payout entry with gross 0 and fee 0 is counted in the entry
\* count of its category in the summary that is produced, whether or not
\* its source entity was fetched: a summary is produced, and the count of
\* the category is at least the number of ledger entries of the category.
ZeroEntryIsCounted ==
    \A k \in DOMAIN balance_transactions :
        (IsZeroEntry(balance_transactions[k]) /\ pc \in {"aggregated", "TypeError"})
            => /\ pc # "TypeError"
               /\ EntryCount(balance_transactions[k].type)
                      >= Len(OfTypes(CategoryOf(balance_transactions[k].type)))

\* C13: the transaction rows process_payout_data builds are exactly the
\* ledger entries that are not payout or payout_failure, one row per entry
\* and in the order the ledger was fetched: the k-th row is the row of the
\* k-th such entry, at every point of the loop and after it.
RowsAreNonPayoutEntries ==
    /\ Len(transactions) = Len(NotOfTypes(PayoutTypes))
    /\ \A k \in DOMAIN transactions :
         transactions[k] = TransactionRecord(NotOfTypes(PayoutTypes)[k])

RowsWitness ==
    /\ pc = "aggregated"
    /\ Len(balance_transactions) = 4
    /\ balance_transactions[1].type = "refund"
    /\ balance_transactions[2].type = "payout"
    /\ balance_transactions[3].type = "refund"
    /\ balance_transactions[3].amount = balance_transactions[1].amount
    /\ balance_transactions[4].type = "payment"
    /\ Len(transactions) = 3
    /\ transactions[3].reference = balance_transactions[4].id

\* C21: for a payout whose fetches all succeeded, process_payout_data
\* completes without error and its summary carries the six category totals,
\* the payment-failures total included, each equal to the accumulated value:
\* once the ledger is aggregated the summary call does not raise, and every
\* accumulator is passed under a field the summary has.
SummaryCarriesSixTotals ==
    /\ pc # "TypeError"
    /\ pc = "aggregated" =>
          /\ PayoutSummary(SummaryKeywords) = "summarized"
          /\ \A f \in {"total_paiements", "total_remboursements", "total_frais",
                       "total_litiges", "total_echecs_paiement", "total_autres"} :
                f \in PayoutSummaryFields /\ f \in DOMAIN SummaryKeywords

-----------------------------------------------------------------------------
(* Properties of the batch *)

IsReported(p) ==
    \E j \in DOMAIN reported : reported[j][1] = "Erreur pour" /\ reported[j][2] = p.id

IsExported(p) ==
    \E j \in DOMAIN exported_files : exported_files[j][2] = p.id

\* C14: in batch mode an error raised by the export of one payout is caught
\* and reported, and every later payout is still attempted: while a listed
\* payout is unattempted the loop is running, the payouts are attempted in
\* the order listed, and each attempted one is reported or exported.
BatchSurvivesErrors ==
    /\ Len(attempted) < Len(payouts) => pc = "batch"
    /\ \A k \in DOMAIN attempted : attempted[k] = payouts[k].id
    /\ pc \in {"batch", "done"} =>
          \A k \in DOMAIN attempted : IsReported(payouts[k]) \/ IsExported(payouts[k])

BatchWitness ==
    /\ pc = "done"
    /\ Len(payouts) = 3
    /\ payouts[1].details = "APIConnectionError"
    /\ payouts[2].details = "ok"
    /\ payouts[3].details = "AuthenticationError"
    /\ Len(attempted) = 3
    /\ reported = << <<"Erreur pour", payouts[1].id, "APIConnectionError">>,
                     <<"Erreur pour", payouts[2].id, "TypeError">>,
                     <<"Erreur pour", payouts[3].id, "AuthenticationError">> >>

\* C15: an exporter is invoked for a payout only when get_payout_details and
\* process_payout_data both returned for it, and for a payout whose export
\* was reported failed no exporter was invoked.
ExportersNeedBundle ==
    /\ \A k \in DOMAIN invoked :
         \E j \in DOMAIN payouts :
           /\ payouts[j].id = invoked[k][1]
           /\ payouts[j].details = "ok"
           /\ process_payout_data(payouts[j].id).raised = NoError
    /\ \A j \in DOMAIN payouts :
         (IsReported(payouts[j]) \/ pc = "exit_1")
            => \A k \in DOMAIN invoked : invoked[k][1] # payouts[j].id

ExportersWitness ==
    /\ pc = "done"
    /\ Len(attempted) = 2
    /\ payouts[1].details = "ok"
    /\ payouts[2].details = "APIError"
    /\ IsReported(payouts[1])
    /\ IsReported(payouts[2])
    /\ invoked = <<>>
    /\ payout_folders = <<>>
    /\ complete_zip = None
    /\ fee_records = <<>>
    /\ payout_details = <<>>
    /\ downloads = <<>>
    /\ futures = <<>>
    /\ results = <<>>
    /\ printed = <<>>
    /\ args = None
    /\ ret = None

-----------------------------------------------------------------------------
(* Properties of error handling *)

Ids(seq) == {seq[k].id : k \in DOMAIN seq}

\* the collection a fetched entity would have been appended to
CollectionOf(call) ==
    IF call[1] = "Charge.retrieve" THEN Ids(charges)
    ELSE IF call[1] = "Refund.retrieve" THEN Ids(refunds)
    ELSE IF call[1] = "Invoice.retrieve" THEN Ids(invoices)
    ELSE IF call[1] = "Dispute.retrieve" THEN Ids(disputes)
    ELSE IF call[1] = "Transfer.retrieve" THEN Ids(transfers)
    ELSE {}

\* C16: a 'not found' (InvalidRequestError) of upstream for a charge, refund,
\* invoice, dispute, transfer, payment-intent or credit-note list is taken
\* as absence: every lookup the resolver makes is inside an except clause
\* for it, get_payout_details raises nothing, the entry is iterated, the
\* entity is in no collection, and the loop goes on to the later entries.
NotFoundIsAbsence ==
    /\ \A k \in DOMAIN calls : "InvalidRequestError" \in Catchers(calls[k])
    /\ (fault # None /\ fault[2] = "InvalidRequestError")
          => /\ pc \in {"resolve", "resolved"}
             /\ Len(balance_transactions) >= fault[3]
             /\ fault[1][2] \notin CollectionOf(fault[1])

NotFoundWitness ==
    /\ pc = "resolved"
    /\ fault # None
    /\ fault[2] = "InvalidRequestError"
    /\ fault[1][1] = "Charge.retrieve"
    /\ fault[3] = 1
    /\ Len(balance_transactions) = 2
    /\ charges = <<>>
    /\ Len(disputes) = 1

TransportErrors == {"APIConnectionError", "AuthenticationError"}

\* C17: a transport or authentication failure (APIConnectionError,
\* AuthenticationError) raised by any upstream lookup of the loop (entity
\* fetch, invoice search, listing of the customer's invoices, credit-note
\* listing) is not swallowed: it leaves get_payout_details.
TransportFailurePropagates ==
    (fault # None /\ fault[2] \in TransportErrors) => pc = fault[2]

TransportFailureWitness ==
    /\ fault # None
    /\ fault[2] = "APIConnectionError"
    /\ fault[1][1] = "Invoice.list"
    /\ fault[3] = 2
    /\ pc = "APIConnectionError"
    /\ Len(charges) = 1

-----------------------------------------------------------------------------
(* Properties of entity resolution *)

Count(seq, id) == Cardinality({k \in DOMAIN seq : seq[k].id = id})

NoRepeat(seq) == \A j, k \in DOMAIN seq : j # k => seq[j].id # seq[k].id

\* C1: when get_payout_details returns, no identifier appears twice in
\* any of the sequences of charges, invoices, refunds, disputes and credit
\* notes, whatever the ledger and with repeated sources allowed.
NoDuplicateIds ==
    pc = "resolved" =>
        /\ NoRepeat(charges)
        /\ NoRepeat(invoices)
        /\ NoRepeat(refunds)
        /\ NoRepeat(disputes)
        /\ NoRepeat(credit_notes)

\* every credit note upstream lists for invoice i is in credit_notes once
HasCreditNotesOnce(i) ==
    \A n \in DOMAIN CreditNotesOf(i) : Count(credit_notes, CreditNotesOf(i)[n]) = 1

\* the invoices of the charge of a fetched refund that were found
FoundInvoicesOf(refund) ==
    IF refund.charge # None /\ refund.charge \in DOMAIN upstream.charge
    THEN LinkedInvoices(upstream, refund.charge) \cap seen_invoices
    ELSE {}

\* C4: when get_payout_details returns, for every fetched refund whose
\* charge has an invoice that was found, every credit note of that invoice
\* is in the credit-note sequence exactly once, also when the charge had
\* been resolved by an earlier ledger entry.
RefundBringsCreditNotes ==
    pc = "resolved" =>
        \A k \in DOMAIN refunds :
            \A i \in FoundInvoicesOf(refunds[k]) : HasCreditNotesOnce(i)

\* C5: when get_payout_details returns, if two refund entries lead through
\* their charges to the same found invoice and that invoice has two credit
\* notes, both credit notes are in the credit-note sequence exactly once.
TwoRefundsBringBothCreditNotes ==
    pc = "resolved" =>
        \A j, k \in DOMAIN refunds :
            j # k =>
                \A i \in FoundInvoicesOf(refunds[j]) \cap FoundInvoicesOf(refunds[k]) :
                    Len(CreditNotesOf(i)) = 2 => HasCreditNotesOnce(i)

\* C6: a charge without a direct invoice reference for which the scan of
\* its customer's invoices shows an invoice recording the charge has that
\* invoice in the resolved invoices.
ScanResolvesInvoice ==
    \A c \in DOMAIN upstream.back :
        (upstream.back[c] # None /\ upstream.charge[c].invoice = None)
            => Count(invoices, upstream.back[c]) = 1

ScanResolvesInvoiceWitness ==
    \E c \in DOMAIN upstream.back :
        /\ upstream.back[c] # None
        /\ upstream.charge[c].invoice = None
        /\ upstream.charge[c].pi_invoice = None
        /\ Asked(calls, "Invoice.list", upstream.charge[c].customer)
        /\ Count(invoices, upstream.back[c]) = 1

\* the reverse search by the charge's payment-intent finds invoice i, or has
\* not been asked and can still find it
SearchReaches(c, i) ==
    LET q == PaymentIntentOf(c)
    IN  IF q \in DOMAIN upstream.search THEN upstream.search[q] = i
        ELSE (i \in DOMAIN upstream.invoice => upstream.invoice[i])

\* C7: when get_payout_details returns, for a resolved charge whose invoice
\* is named by its payment-intent and is reachable by the reverse search,
\* that invoice is in the resolved invoices exactly once.
InvoiceByTwoPathsOnce ==
    pc = "resolved" =>
        \A c \in seen_charges :
            LET i == upstream.charge[c].pi_invoice
            IN  (i # None /\ SearchReaches(c, i)) => Count(invoices, i) = 1

\* the payment-intent entry met an invoice it had already resolved through
\* the charge, by both of its paths
InvoiceByTwoPathsWitness ==
    /\ pc = "resolved"
    /\ \E c \in seen_charges :
         LET i == upstream.charge[c].pi_invoice
             q == PaymentIntentOf(c)
         IN  /\ i # None
             /\ q \in DOMAIN upstream.search
             /\ upstream.search[q] = i
             /\ Count(invoices, i) = 1
             /\ Count(charges, c) = 1

\* the lookups that invoice discovery made for a charge, by path
IsPathCall(call) == call[3][1] \in 2..4

\* C8: the lookups of invoice discovery for a charge are made in the order
\* path 2 (payment-intent), path 3 (reverse search), path 4 (customer
\* scan), each path only after the earlier ones were tried and yielded
\* nothing, path 1 being the reference on the charge itself.
PathsInOrder ==
    /\ \A k \in DOMAIN calls :
        IsPathCall(calls[k]) =>
            LET path == calls[k][3][1]
                c == calls[k][3][2]
                f == upstream.charge[c]
                q == PaymentIntentOf(c)
                Before(n) == \E j \in 1..(k - 1) : calls[j][3] = <<n, c>>
                After(n) == \E j \in (k + 1)..Len(calls) : calls[j][3] = <<n, c>>
            IN  /\ f.invoice = None
                /\ path >= 3 => f.pi_invoice = None
                /\ path = 3 => Before(2)
                /\ path = 4 => (f.has_pi => (Before(2) /\ Before(3)
                                              /\ upstream.search[q] = None))
                /\ \A n \in 2..4 : n < path => ~After(n)
    \* the search the caller repeats is made only when discovery gave nothing
    /\ \A k \in DOMAIN calls :
          calls[k][3][1] = 5 =>
              LinkedInvoices(upstream, calls[k][3][2]) \cap seen_invoices = {}

\* discovery went through every path down to the customer scan
PathsInOrderWitness ==
    \E j, k, l \in DOMAIN calls :
        /\ j < k /\ k < l
        /\ calls[j][3][1] = 2 /\ calls[k][3][1] = 3 /\ calls[l][3][1] = 4
        /\ calls[l][1] = "Invoice.retrieve"

FetchOps == {"Charge.retrieve", "Refund.retrieve", "Invoice.retrieve", "Dispute.retrieve"}

\* C18: a charge, invoice, refund or dispute that is already in its resolved
\* sequence is never fetched from upstream again: no lookup an entry makes
\* retrieves an identifier the sequences held before it.
NoSecondFetch ==
    [][Iterated =>
         \A k \in DOMAIN calls' :
            calls'[k][1] \in FetchOps => calls'[k][2] \notin CollectionOf(calls'[k])]_vars

\* the entry just iterated has a pi_ source whose payment-intent was fetched
\* and shows its charge both in `charges` and as `latest_charge`
ExposedTwice ==
    /\ Iterated
    /\ Branch(LastEntry) = "pi_"
    /\ LastEntry.source \in DOMAIN upstream'.payment_intent
    /\ upstream'.payment_intent[LastEntry.source].charges
    /\ upstream'.payment_intent[LastEntry.source].latest_charge # "none"

\* the lookups of the entry that discovery made for charge c, by path
DiscoveryCalls(c, path) ==
    {k \in DOMAIN calls' : calls'[k][3] = <<path, c>>}

\* C19: for a pi_ entry whose payment-intent shows the same charge in its
\* charges collection and as its latest charge, the charge is in the charge
\* sequence exactly once after the entry, and discovery ran for it at most
\* once: the entry searched by its payment-intent and scanned its customer's
\* invoices at most once each.
ChargeExposedTwiceOnce ==
    [][ExposedTwice =>
         /\ Count(charges', ChargeOf(LastEntry.source)) = 1
         /\ Cardinality(DiscoveryCalls(ChargeOf(LastEntry.source), 2)) <= 1
         /\ Cardinality(DiscoveryCalls(ChargeOf(LastEntry.source), 3)) <= 1
         /\ Cardinality({k \in DiscoveryCalls(ChargeOf(LastEntry.source), 4) :
                            calls'[k][1] = "Invoice.list"}) <= 1]_vars

\* C20: the ch_ branch and the py_ branch apply the same steps: on every
\* entry with a ch_ or py_ source, from the state before the entry and the
\* answers upstream gave, the body of either branch leaves the same
\* charges, invoices and seen-sets after the same lookups, which is the
\* state after the entry.
SamePrefixSteps ==
    [][(Iterated /\ Branch(LastEntry) \in {"ch_", "py_"})
          => /\ ChargeSource(upstream', Resolved, LastEntry.source)
                  = PaymentSource(upstream', Resolved, LastEntry.source)
             /\ charges' = PaymentSource(upstream', Resolved, LastEntry.source).charges
             /\ invoices' = ChargeSource(upstream', Resolved, LastEntry.source).invoices
             /\ seen_charges' = PaymentSource(upstream', Resolved, LastEntry.source).seen_charges
             /\ seen_invoices' = ChargeSource(upstream', Resolved, LastEntry.source).seen_invoices]_vars

SamePrefixWitness ==
    /\ Len(balance_transactions) = 2
    /\ balance_transactions[1].source = ch_1
    /\ balance_transactions[2].source = py_1
    /\ Ids(charges) = {ch_1, py_1}
    /\ Ids(invoices) = {in_1}
    /\ \E k \in DOMAIN calls : calls[k][3] = <<5, py_1>>

-----------------------------------------------------------------------------
(* Properties of a run over several payouts *)

EarlierCharges == UNION {Ids(payout_details[k].charges) : k \in DOMAIN payout_details}

EarlierInvoices == UNION {Ids(payout_details[k].invoices) : k \in DOMAIN payout_details}

\* a call of get_payout_details that has iterated no entry holds nothing
StartsEmpty ==
    (pc = "resolve" /\ balance_transactions = <<>>)
        => /\ charges = <<>> /\ refunds = <<>> /\ invoices = <<>>
           /\ disputes = <<>> /\ transfers = <<>> /\ credit_notes = <<>>
           /\ fees_breakdown = <<>>
           /\ seen_invoices = {} /\ seen_charges = {} /\ seen_credit_notes = {}

\* the first entry of a call has for source a charge an earlier call resolved
MeetsEarlierCharge ==
    /\ Iterated
    /\ balance_transactions = <<>>
    /\ Branch(LastEntry) \in {"ch_", "py_"}
    /\ LastEntry.source \in EarlierCharges

\* C23: each call of get_payout_details starts with empty seen-sets and
\* empty entity sequences, and a charge resolved for an earlier payout is
\* neither skipped nor listed beforehand when a later payout refers to it:
\* it is fetched again and appended, and so is its invoice.
PayoutsShareNothing ==
    /\ []StartsEmpty
    /\ [][MeetsEarlierCharge =>
            /\ Asked(calls', "Charge.retrieve", LastEntry.source)
            /\ Count(charges', LastEntry.source) = 1
            /\ \A i \in LinkedInvoices(upstream', LastEntry.source) \cap EarlierInvoices :
                  Count(invoices', i) = 1]_vars

PayoutsShareNothingWitness ==
    /\ Len(payout_details) = 2
    /\ Ids(payout_details[1].charges) = {ch_1}
    /\ Ids(payout_details[1].invoices) = {in_1}
    /\ Ids(payout_details[2].charges) = {ch_1}
    /\ Ids(payout_details[2].invoices) = {in_1}
    /\ Len(balance_transactions) = 1
    /\ balance_transactions[1].source = ch_1
    /\ Ids(charges) = {ch_1}
    /\ Ids(invoices) = {in_1}
    /\ Asked(calls, "Charge.retrieve", ch_1)
    /\ Asked(calls, "Invoice.retrieve", in_1)

-----------------------------------------------------------------------------
(* Properties of the downloads *)

\* the futures whose own download gave a file
Succeeded == {i \in DOMAIN futures : IsPath(futures[i].outcome)}

Consumed == {i \in DOMAIN futures : futures[i].state = "consumed"}

DistinctNumbers ==
    \A i, j \in DOMAIN futures :
        i # j => futures[i].record.numero # futures[j].record.numero

\* C24: with the downloads running in the pool and completing in any order,
\* a download that fails (None or an exception) neither prevents nor
\* discards another: the mapping holds exactly the numbers of the consumed
\* records whose own download gave a file, each with a file of its own;
\* when it is returned every record with a URL has been downloaded and
\* consumed, and its size is the success count printed.
DownloadsAreIsolated ==
    /\ DOMAIN results = {futures[i].record.numero : i \in Succeeded \cap Consumed}
    /\ \A n \in DOMAIN results :
          \E i \in Succeeded \cap Consumed :
              futures[i].record.numero = n /\ results[n] = futures[i].outcome
    /\ pc = "returned" =>
          /\ Consumed = DOMAIN futures
          /\ Len(futures) = Len(SelectSeq(downloads, LAMBDA r : r.pdf_url))
          /\ futures # <<>> =>
                printed[Len(printed)] = <<"Telechargement termine",
                                          Cardinality(DOMAIN results), Len(futures)>>
          /\ DistinctNumbers => Cardinality(DOMAIN results) = Cardinality(Succeeded)

DownloadsWitness ==
    /\ pc = "returned"
    /\ Len(futures) = 3
    /\ futures[1].outcome = <<"raised">>
    /\ futures[2].outcome = <<"avoirs", "avoir_", <<"F-", 2>>, ".pdf">>
    /\ futures[3].outcome = <<"avoirs", "avoir_", <<"F-", 3>>, ".pdf">>
    /\ futures[1].record.numero = <<"F-", 1>>
    /\ DOMAIN results = {<<"F-", 2>>, <<"F-", 3>>}
    /\ printed = << <<"Telechargement de", 3>>, <<"ok", <<"F-", 3>> >>,
                    <<"erreur", <<"F-", 1>> >>, <<"ok", <<"F-", 2>> >>,
                    <<"Telechargement termine", 2, 3>> >>

-----------------------------------------------------------------------------
(* Properties of the utilities *)

\* the customer object has the attribute and it is neither None nor ''
NonEmpty(customer, name) ==
    name \in DOMAIN customer[2] /\ customer[2][name] \notin {None, Str("")}

\* C25: get_customer_display_name returns the name if it is non-empty,
\* otherwise the email if it is non-empty, otherwise the customer's
\* identifier; the empty string when the customer is absent; and a bare
\* identifier as it is.
DisplayNameOrder ==
    (pc = "returned" /\ args[1] = "get_customer_display_name") =>
        IF args[2] = None THEN ret = Str("")
        ELSE IF args[2][1] = "str" THEN ret = args[2]
        ELSE IF NonEmpty(args[2], "name") THEN ret = args[2][2].name
        ELSE IF NonEmpty(args[2], "email") THEN ret = args[2][2].email
        ELSE ret = args[2][2].id

DisplayNameWitness ==
    /\ pc = "returned"
    /\ args = <<"get_customer_display_name",
                Object([name |-> Str(""), email |-> Str("a@x.fr"), id |-> Str("cus_2")])>>
    /\ ret = Str("a@x.fr")

RECURSIVE UpToUnderscore(_, _)
UpToUnderscore(s, k) ==
    IF k > Len(s) THEN <<>>
    ELSE IF s[k] = "_" THEN SubSeq(s, 1, k)
    ELSE UpToUnderscore(s, k + 1)

\* the prefix of an identifier: its characters up to the first underscore
PrefixOf(stripe_id) == UpToUnderscore(stripe_id, 1)

TablePrefixes == {url_mappings[k][1] : k \in DOMAIN url_mappings}

DashboardCategory(prefix) ==
    url_mappings[CHOOSE k \in DOMAIN url_mappings : url_mappings[k][1] = prefix][2]

\* C26: get_stripe_dashboard_url returns base/{account}/{category}/{id}, the
\* category being the entry of the prefix table for the identifier's prefix
\* (base/{category}/{id} when no account id is given), and no URL for a
\* ledger-entry reference (txn_), for an empty identifier and for an
\* identifier whose prefix the table does not have.
DashboardUrlByPrefix ==
    (pc = "returned" /\ args[1] = "get_stripe_dashboard_url") =>
        IF PrefixOf(args[2]) \in TablePrefixes
        THEN ret = IF args[3] # None
                   THEN <<base_url, args[3], DashboardCategory(PrefixOf(args[2])), args[2]>>
                   ELSE <<base_url, DashboardCategory(PrefixOf(args[2])), args[2]>>
        ELSE ret = None

DashboardUrlWitness ==
    /\ pc = "returned"
    /\ args = <<"get_stripe_dashboard_url", <<"t", "r", "_", "1">>,
                <<"a", "c", "c", "t", "_", "2">> >>
    /\ ret = <<base_url, <<"a", "c", "c", "t", "_", "2">>, "connect/transfers",
               <<"t", "r", "_", "1">> >>

-----------------------------------------------------------------------------
(* Properties of the resolved charges *)

\* C27: whatever the order of the ledger, every charge that is the source of
\* a ch_ or py_ entry and that upstream returns is in the charge sequence
\* when get_payout_details returns, and an identifier is in seen_charges
\* only if the charge is in the charge sequence, a refund of the charge
\* having come first or not.
SeenChargesAreListed ==
    /\ seen_charges \subseteq Ids(charges)
    /\ pc = "resolved" =>
          \A k \in DOMAIN balance_transactions :
              (/\ Branch(balance_transactions[k]) \in {"ch_", "py_"}
               /\ upstream.charge[balance_transactions[k].source].found)
                 => balance_transactions[k].source \in Ids(charges)

-----------------------------------------------------------------------------
(* process_payout_data on what get_payout_details returned: the rows with   *)
(* their invoice numbers, the accumulators and the fee rows                 *)

\* `for charge in charges: if charge.id == source_id:` the first match
RECURSIVE ChargeOfSource(_, _)
ChargeOfSource(source_id, chs) ==
    IF chs = <<>> THEN None
    ELSE IF Head(chs).id = source_id THEN Head(chs)
    ELSE ChargeOfSource(source_id, Tail(chs))

\* `for inv in invoices: if inv.id == charge_invoice_id: invoice_number = inv.number`
RECURSIVE NumberOfInvoice(_, _)
NumberOfInvoice(charge_invoice_id, invs) ==
    IF invs = <<>> THEN None
    ELSE IF Head(invs).id = charge_invoice_id THEN Head(invs).number
    ELSE NumberOfInvoice(charge_invoice_id, Tail(invs))

\* the number looked up through every invoice the resolver kept for the
\* charge, whichever path found it
InvoiceNumber_AnyPath(charge, invs) ==
    IF charge = None THEN None
    ELSE NumberOfInvoice(
             _extract_invoice_from_charge(upstream, charge, {}, <<>>).ret, invs)

\* `if charge.invoice:` only the invoice named on the charge is looked up
InvoiceNumber(charge, invs) ==
    IF charge = None THEN None
    ELSE IF charge.invoice = None THEN None
    ELSE NumberOfInvoice(charge.invoice, invs)

\* `invoice_number = None; source_id = bt.source; if source_id: ...`
invoice_number(bt, chs, invs) ==
    IF bt.source = None THEN None
    ELSE InvoiceNumber(ChargeOfSource(bt.source, chs), invs)

\* the TransactionRecord of an entry, numero_facture included
ReportRow(bt, chs, invs) ==
    [reference |-> bt.id,
     montant_brut |-> cents_to_decimal(bt.amount),
     frais |-> cents_to_decimal(bt.fee),
     numero_facture |-> invoice_number(bt, chs, invs),
     source_id |-> bt.source]

Reported(ledger) == SelectSeq(ledger, LAMBDA b : ~IsSkipped(b))

ReportRows(ledger, chs, invs) ==
    [k \in DOMAIN Reported(ledger) |-> ReportRow(Reported(ledger)[k], chs, invs)]

FEE_TYPES ==
    [stripe_fee |-> "Frais Stripe", application_fee |-> "Commission Application",
     network_cost |-> "Couts Reseau", tax |-> "Taxe"]

\* FEE_TYPES.get(fee_type, fee_type.replace("_", " ").title())
translate_fee_type(fee_type) ==
    IF fee_type \in DOMAIN FEE_TYPES THEN FEE_TYPES[fee_type]
    ELSE "Title " \o fee_type

\* fee['currency'].upper()
upper(currency) ==
    IF currency = "eur" THEN "EUR" ELSE IF currency = "usd" THEN "USD" ELSE currency

FeeRecord(fee) ==
    [transaction_id |-> fee.transaction_id,
     type |-> translate_fee_type(fee.type),
     description |-> fee.description,
     montant |-> cents_to_decimal(fee.amount),
     devise |-> upper(fee.currency)]

FeeRecords_All(fees) == [k \in DOMAIN fees |-> FeeRecord(fees[k])]

\* the fee rows with the lines of the payout entries left out
FeeRecords_ReportedOnly(fees) ==
    FeeRecords_All(SelectSeq(fees, LAMBDA f :
        \E k \in DOMAIN balance_transactions :
            /\ balance_transactions[k].id = f.transaction_id
            /\ ~IsSkipped(balance_transactions[k])))

\* `for fee in fees_breakdown: fee_records.append(FeeRecord(...))`
FeeRecords(fees) == FeeRecords_All(fees)

\* process_payout_data(raw_data) up to the call of PayoutSummary
ProcessResolved ==
    /\ pc = "resolved"
    /\ transactions' = ReportRows(balance_transactions, charges, invoices)
    /\ SetTotals(AggregateAll(ZeroTotals, balance_transactions))
    /\ fee_records' = FeeRecords(fees_breakdown)
    /\ pc' = PayoutSummary(SummaryKeywords)
    /\ UNCHANGED <<balance_transactions, entities, failure, batch, payout_details,
                   download, utilities>>

NextReport == NextResolve \/ ProcessResolved

SpecReport == InitResolve /\ [][NextReport]_vars

\* process_payout_data has built its rows
Processed == pc \in {"summarized", "TypeError"} /\ payouts = <<>> /\ outages = {}

\* C28: when the charge that is the source of a ledger entry was resolved
\* and one of the four discovery paths found and kept an invoice for it, the
\* row of the entry carries the number of that invoice; the field is blank
\* only when no invoice was discovered for the charge.
RowsCarryDiscoveredInvoice ==
    Processed =>
        \A k \in DOMAIN transactions :
            transactions[k].numero_facture =
                InvoiceNumber_AnyPath(ChargeOfSource(transactions[k].source_id, charges),
                                      invoices)


\* the fee lines of a ledger, entry after entry
RECURSIVE LedgerFeeLines(_)
LedgerFeeLines(ledger) ==
    IF ledger = <<>> THEN <<>>
    ELSE FeeLines(Head(ledger)) \o LedgerFeeLines(Tail(ledger))

\* the fee rows are, line for line, the given fee lines
FeeRowsAre(lines) ==
    /\ Len(fee_records) = Len(lines)
    /\ \A k \in DOMAIN lines :
         /\ fee_records[k].transaction_id = lines[k].transaction_id
         /\ fee_records[k].montant = cents_to_decimal(lines[k].amount)
         /\ fee_records[k].description = lines[k].description

\* C29 as stated: the fee rows are the fee lines of the ledger entries in
\* ledger order, and every fee row refers to an entry that has a transaction
\* row, a payout or payout_failure entry contributing none.
FeeRowsOfReportedEntries ==
    Processed =>
        /\ FeeRowsAre(LedgerFeeLines(balance_transactions))
        /\ \A k \in DOMAIN fee_records :
             \E j \in DOMAIN transactions :
                 transactions[j].reference = fee_records[k].transaction_id

\* C29: the fee rows process_payout_data builds are the fee lines of all
\* the ledger entries in ledger order, those of the payout and
\* payout_failure entries included, which have no transaction row.
FeeRowsOfAllEntries ==
    Processed => FeeRowsAre(LedgerFeeLines(balance_transactions))

\* a ledger with fee lines on a payout entry and on a charge entry
FeeRowsWitness ==
    /\ Processed
    /\ \E k \in DOMAIN fee_records :
         \E j \in DOMAIN transactions :
             transactions[j].reference = fee_records[k].transaction_id
    /\ \E k \in DOMAIN fee_records :
         \E j \in DOMAIN balance_transactions :
             /\ balance_transactions[j].id = fee_records[k].transaction_id
             /\ IsSkipped(balance_transactions[j])

-----------------------------------------------------------------------------
(* Properties of the lists main keeps over a run *)

\* the attempted payouts whose export_payout returned
Completed ==
    SelectSeq(SubSeq(payouts, 1, Len(attempted)),
              LAMBDA p : export_payout(p).raised = NoError)

=============================================================================
